---- MODULE Spec2Model ----
(***************************************************************************)
(* Scriptor: the chain driver (lib/docker.js), the script runner           *)
(* (lib/scripts.js) and the persisted chain state (lib/chain.js).          *)
(*                                                                         *)
(* Strings are sequences of one-character strings, so that formatting a    *)
(* run number into a directory name is computed as the code computes it.   *)
(***************************************************************************)
EXTENDS Integers, Sequences, FiniteSets, TLC

(***************************************************************************)
(* Bounds of the model.                                                    *)
(***************************************************************************)
\* largest number of runs one chain is followed for (caps max = undefined)
MaxRuns == 3
\* largest chain.max drawn for a chain configuration
MaxMax == 2
\* largest chain.start drawn for a chain configuration
MaxStart == 2
\* number of process restarts of the persisted-state driver that are followed
MaxRestarts == 1
\* the longest list of paths given to files.readOptions
MaxPaths == 2
\* the longest list of base directories given to files.getExisting
MaxDirectories == 3

(***************************************************************************)
(* Strings as character sequences.                                         *)
(***************************************************************************)
DigitChars == <<"0", "1", "2", "3", "4", "5", "6", "7", "8", "9">>

IsDigit(c) == \E i \in 1..10 : DigitChars[i] = c

DigitValue(c) == (CHOOSE i \in 1..10 : DigitChars[i] = c) - 1

Max(a, b) == IF a >= b THEN a ELSE b

\* "0".repeat(n)
RECURSIVE Repeat(_, _)
Repeat(c, n) == IF n <= 0 THEN <<>> ELSE <<c>> \o Repeat(c, n - 1)

\* String(n) for a non-negative integer n
RECURSIVE NumberToString(_)
NumberToString(n) ==
  IF n < 10 THEN <<DigitChars[n + 1]>>
  ELSE NumberToString(n \div 10) \o <<DigitChars[(n % 10) + 1]>>

\* parseInt(s) for a string of decimal digits
RECURSIVE ParseInt(_)
ParseInt(s) ==
  IF s = <<>> THEN 0
  ELSE 10 * ParseInt(SubSeq(s, 1, Len(s) - 1)) + DigitValue(s[Len(s)])

\* s.substr(from, length), from counted from 0
Substr(s, from, length) == SubSeq(s, from + 1, from + length)

\* index of the first occurrence of needle in s at or after position i, 0 if none
RECURSIVE IndexOf(_, _, _)
IndexOf(s, needle, i) ==
  IF i + Len(needle) - 1 > Len(s) THEN 0
  ELSE IF SubSeq(s, i, i + Len(needle) - 1) = needle THEN i
  ELSE IndexOf(s, needle, i + 1)

\* s.replace(needle, replacement) with a string needle: the first occurrence only
ReplaceFirst(s, needle, replacement) ==
  LET i == IndexOf(s, needle, 1)
  IN IF i = 0 THEN s
     ELSE SubSeq(s, 1, i - 1) \o replacement \o SubSeq(s, i + Len(needle), Len(s))

\* end of the longest run of digits of s that starts at position i (i - 1 if none)
RECURSIVE DigitsEnd(_, _)
DigitsEnd(s, i) ==
  IF i <= Len(s) /\ IsDigit(s[i]) THEN DigitsEnd(s, i + 1) ELSE i - 1

\* length of the match of the regular expression %0[0-9]+d at position i of s, 0 if none
MatchLength(s, i) ==
  IF i + 1 <= Len(s) /\ s[i] = "%" /\ s[i + 1] = "0"
  THEN LET e == DigitsEnd(s, i + 2)
       IN IF e >= i + 2 /\ e + 1 <= Len(s) /\ s[e + 1] = "d"
          THEN e + 2 - i
          ELSE 0
  ELSE 0

\* pattern.matchAll("%0[0-9]+d"): the matched substrings from position i on, left to right
RECURSIVE MatchAll(_, _)
MatchAll(s, i) ==
  IF i > Len(s) THEN <<>>
  ELSE LET n == MatchLength(s, i)
       IN IF n = 0 THEN MatchAll(s, i + 1)
          ELSE <<SubSeq(s, i, i + n - 1)>> \o MatchAll(s, i + n)

(***************************************************************************)
(* Paths: a directory is named by its parent directory and its base name.  *)
(***************************************************************************)
PathJoin(directory, name) == [dir |-> directory, base |-> name]

PathDirname(p) == p.dir

PathBasename(p) == p.base

\* null, where a directory is expected
NullDirectory == [dir |-> "", base |-> <<>>]

(***************************************************************************)
(* JSON values and objects.  An object is a function from the keys it      *)
(* defines; a key outside its domain reads as undefined.                   *)
(***************************************************************************)
JNum(n) == [type |-> "number", isInteger |-> TRUE, num |-> n, str |-> <<>>]

\* a number that is not an integer (n + 0.5)
JFrac(n) == [type |-> "number", isInteger |-> FALSE, num |-> n, str |-> <<>>]

JStr(s) == [type |-> "string", isInteger |-> FALSE, num |-> 0, str |-> s]

JBool(b) == [type |-> "boolean", isInteger |-> FALSE, num |-> IF b THEN 1 ELSE 0,
             str |-> <<>>]

JUndefined == [type |-> "undefined", isInteger |-> FALSE, num |-> 0, str |-> <<>>]

\* a value that is an object with the properties props
JObject(props) == [type |-> "object", isInteger |-> FALSE, num |-> 0, str |-> <<>>,
                   props |-> props]

EmptyObject == [k \in {} |-> JUndefined]

\* the content of a file of length 0, which JSON.parse rejects
EmptyFile == [k \in {"<end of input>"} |-> JUndefined]

Get(object, key) == IF key \in DOMAIN object THEN object[key] ELSE JUndefined

\* the object with object[key] = value assigned
Put(object, key, value) ==
  [k \in (DOMAIN object) \cup {key} |-> IF k = key THEN value ELSE object[k]]

\* results of functions that may throw
Ok(v) == [ok |-> TRUE, value |-> v]

Thrown == [ok |-> FALSE, value |-> 0]

(***************************************************************************)
(* Names used by the model.                                                *)
(***************************************************************************)
\* cli.js: CHAIN_PATTERN_DEFAULT = "run%06d"
CHAIN_PATTERN_DEFAULT == <<"r", "u", "n", "%", "0", "6", "d">>

\* chain.js: default of numDigits in getChainOutputDirectory
NUM_DIGITS_DEFAULT == 9

\* the directory given as --output-directory (parent of the run directories)
OutputDirectory == "out"

\* the same directory as the output directory of a single run without --chain
SingleOutputDirectory == PathJoin("", <<"o", "u", "t">>)

\* the directory given as --input, when one is given
InitialInput == PathJoin("", <<"i", "n">>)

\* the name of the chain of the persisted-state strategy
ChainName == <<"r", "u", "n">>

JsonSuffix == <<".", "j", "s", "o", "n">>

VARIABLES
  jsonFiles      \* the chain configuration files on disk: path -> content, a
                 \* JSON object or EmptyFile

(***************************************************************************)
(* lib/chain.js                                                            *)
(***************************************************************************)
\* the value JSON.parse gives for the content of the file; EmptyFile stands
\* for the SyntaxError it throws, which every caller lets through
getChainConfiguration(chainName, outputDirectory) ==
  LET chainConfigurationFile == PathJoin(outputDirectory, chainName \o JsonSuffix)
  IN IF chainConfigurationFile \notin DOMAIN jsonFiles
     THEN EmptyObject
     ELSE jsonFiles[chainConfigurationFile]

getNextChainIndexOffByOne(chainConfiguration) ==
  LET nextIndex == Get(chainConfiguration, "nextIndex")
  IN IF nextIndex.type = "undefined" THEN Ok(0)
     ELSE IF nextIndex.type # "number" THEN Thrown
     ELSE IF ~nextIndex.isInteger \/ nextIndex.num < 1 THEN Thrown
     ELSE Ok(nextIndex.num)

getNextChainIndex(chainConfiguration) ==
  LET nextIndex == Get(chainConfiguration, "nextIndex")
  IN IF nextIndex.type = "undefined" THEN Ok(1)
     ELSE IF nextIndex.type # "number" THEN Thrown
     ELSE IF ~nextIndex.isInteger \/ nextIndex.num < 1 THEN Thrown
     ELSE Ok(nextIndex.num)

getChainInputDirectoryNone(chainName, outputDirectory) == NullDirectory

getChainInputDirectory(chainName, outputDirectory) ==
  LET chainConfiguration == getChainConfiguration(chainName, outputDirectory)
      previous == Get(chainConfiguration, "previous")
  IN IF previous.type = "undefined"
     THEN NullDirectory
     ELSE PathJoin(outputDirectory, previous.str)

getChainOutputDirectory(chainName, outputDirectory, numDigits) ==
  LET chainConfiguration == getChainConfiguration(chainName, outputDirectory)
      nextIndex == getNextChainIndex(chainConfiguration)
  IN IF chainConfiguration = EmptyFile \/ ~nextIndex.ok THEN Thrown
     ELSE LET nextIndexString == NumberToString(nextIndex.value)
              numLeadingZeroes == Max(0, numDigits - Len(nextIndexString))
          IN Ok(PathJoin(outputDirectory,
                  chainName \o <<"-">> \o Repeat("0", numLeadingZeroes) \o nextIndexString))

\* the content stepChainConfiguration writes (Thrown: it throws and writes nothing)
steppedChainConfigurationKeepPrevious(chainName, chainOutputDirectory) ==
  LET outputDirectory == PathDirname(chainOutputDirectory)
      chainConfiguration == getChainConfiguration(chainName, outputDirectory)
      nextIndex == getNextChainIndex(chainConfiguration)
  IN IF chainConfiguration = EmptyFile \/ ~nextIndex.ok THEN Thrown
     ELSE Ok(Put(chainConfiguration, "nextIndex", JNum(nextIndex.value + 1)))

steppedChainConfiguration(chainName, chainOutputDirectory) ==
  LET outputDirectory == PathDirname(chainOutputDirectory)
      chainConfiguration == getChainConfiguration(chainName, outputDirectory)
      nextIndex == getNextChainIndex(chainConfiguration)
  IN IF chainConfiguration = EmptyFile \/ ~nextIndex.ok THEN Thrown
     ELSE Ok(Put(Put(chainConfiguration, "nextIndex", JNum(nextIndex.value + 1)),
                 "previous", JStr(PathBasename(chainOutputDirectory))))

\* the files after stepChainConfiguration wrote the stepped configuration
filesAfterStep(chainName, chainOutputDirectory) ==
  LET outputDirectory == PathDirname(chainOutputDirectory)
      chainConfigurationFile == PathJoin(outputDirectory, chainName \o JsonSuffix)
      stepped == steppedChainConfiguration(chainName, chainOutputDirectory)
  IN [f \in (DOMAIN jsonFiles) \cup {chainConfigurationFile} |->
        IF f = chainConfigurationFile THEN stepped.value ELSE jsonFiles[f]]

(***************************************************************************)
(* lib/docker.js and lib/cli.js: the directory of one run of a chain       *)
(***************************************************************************)
\* the loop of getRunOutputDirectory over the matches that are left
RECURSIVE replaceMatches(_, _, _)
replaceMatches(runDirectoryName, matches, runNumber) ==
  IF matches = <<>> THEN runDirectoryName
  ELSE LET match == Head(matches)
           runNumberString == NumberToString(runNumber)
           numDigits == ParseInt(Substr(match, 2, Len(match) - 3))
           numLeadingZeroes == Max(0, numDigits - Len(runNumberString))
           formattedRunNumber == Repeat("0", numLeadingZeroes) \o runNumberString
       IN replaceMatches(ReplaceFirst(runDirectoryName, match, formattedRunNumber),
                         Tail(matches), runNumber)

getRunOutputDirectoryPatternOnly(outputDirectory, pattern, runNumber) ==
  PathJoin(outputDirectory, pattern)

\* (the pattern and its matches are values bound once, as in the code)
getRunOutputDirectory(outputDirectory, pattern, runNumber) ==
  CHOOSE runOutputDirectory \in
      {PathJoin(outputDirectory, replaceMatches(found.pattern, found.matches, runNumber)) :
         found \in {[pattern |-> runDirectoryName,
                     matches |-> MatchAll(runDirectoryName, 1)] :
                      runDirectoryName \in {pattern}}} : TRUE

(***************************************************************************)
(* lib/cli.js: the --chain option.  options.chain is absent (given =       *)
(* FALSE) or holds the JSON object of the option ({} for a bare --chain).  *)
(***************************************************************************)
getChainConfigurationCli(chainOption) ==
  LET pattern == Get(chainOption.config, "pattern")
      start == Get(chainOption.config, "start")
      max == Get(chainOption.config, "max")
      patternOk == \/ pattern.type = "undefined"
                   \/ pattern.type = "string" /\ MatchAll(pattern.str, 1) # <<>>
      startOk == \/ start.type = "undefined"
                 \/ start.type = "number" /\ start.isInteger /\ start.num >= 1
      \* cli.js checks chain.start < 1 where chain.max is meant
      maxOk == \/ max.type = "undefined"
               \/ /\ max.type = "number"
                  /\ max.isInteger
                  /\ ~((IF start.type = "undefined" THEN 1 ELSE start.num) < 1)
  IN IF ~chainOption.given THEN [ok |-> TRUE, chain |-> FALSE, pattern |-> <<>>,
                                 start |-> 0, max |-> JUndefined]
     ELSE IF ~(patternOk /\ startOk /\ maxOk)
          THEN [ok |-> FALSE, chain |-> FALSE, pattern |-> <<>>,
                start |-> 0, max |-> JUndefined]
     ELSE [ok |-> TRUE, chain |-> TRUE,
           pattern |-> IF pattern.type = "undefined"
                       THEN CHAIN_PATTERN_DEFAULT ELSE pattern.str,
           start |-> IF start.type = "undefined" THEN 1 ELSE start.num,
           max |-> max]

\* what is found at a path of the command line
EntryKinds == {"directory", "file", "missing"}

\* scripts.js lines 75-82 and cli.js lines 250-257, 306-311: whether the
\* checks of a directory pass (the entry exists and is a directory)
checkDirectoryExists(kind) == kind # "missing"

checkDirectory(kind) == kind = "directory"

\* cli.js getRunOptions: FALSE when it throws for the value of --replay
\* ("not" stands for no --replay) or of --unrandomize
getRunOptions(replay, unrandomize) ==
  /\ replay \in {"not", "r", "rw"}
  /\ unrandomize \in {"constant", "not"}

\* cli.js getScriptDirectory: FALSE when it throws
getScriptDirectory(entries) == checkDirectory(entries.script)

\* cli.js getInputDirectory: FALSE when it throws; without --input it gives null
getInputDirectory(inputGiven, entries) == inputGiven => checkDirectory(entries.input)

getOutputDirectoryAnyContent(chainOption, entries) == entries.output # "file"

\* cli.js getOutputDirectory: FALSE when it throws (mkdirSync on a file, or
\* without --chain a directory that is not empty: "used" is a directory that
\* holds the output of an earlier invocation)
getOutputDirectory(chainOption, entries) ==
  /\ entries.output # "file"
  /\ ~chainOption.given => entries.output # "used"

(***************************************************************************)
(* State.                                                                  *)
(***************************************************************************)
VARIABLES
  strategy,      \* "counter": lib/docker.js chain; "persisted": lib/chain.js state
  options,       \* the parsed command line options
  faults,        \* what happened from outside: "killed" (the process was killed
                 \* in the write of the chain configuration file), "edited"
                 \* (the file was edited), "launch" (a browser did not come up)
  trees,         \* the output trees on disk: directory -> content and lock
  driver,        \* the chain driver: position, loop counter, input directory
  chainable,     \* docker.js: the flag shared by all runs (assigned undeclared)
  runs,          \* one record per run started, in the order of their start
  call           \* lib/files.js used as a library: the call and what it returned

vars == <<jsonFiles, strategy, options, faults, trees, driver, chainable, runs, call>>

(***************************************************************************)
(* lib/files.js: the names of the browser contexts.  The listing of a      *)
(* browserContexts directory is a set of entries [name, isDirectory]; a    *)
(* base directory without that directory has the empty listing.            *)
(***************************************************************************)
BROWSER_CONTEXT_DEFAULT == "default"

Directory(name) == [name |-> name, isDirectory |-> TRUE]

File(name) == [name |-> name, isDirectory |-> FALSE]

\* getContextDirectoryNames, with the listings of the base directories that
\* are not null
getContextDirectoryNamesFirstOnly(listings) ==
  IF listings = <<>> THEN {}
  ELSE {entry.name : entry \in {e \in listings[1] : e.isDirectory}}

getContextDirectoryNames(listings) ==
  {entry.name : entry \in
     {e \in UNION {listings[i] : i \in 1..Len(listings)} : e.isDirectory}}

BROWSER_CONTEXTS_DIRECTORY == "browserContexts"

SCRIPT_OPTIONS_FILE_NAME == "config.json"

BROWSER_CONTEXT_OPTIONS_FILE_NAME == "browser.json"

\* a path below a base directory is the sequence of the base directory and
\* the names that path.join added to it; null (a base directory, a path that
\* map gave null for, a context name) is the empty sequence or name
NullPath == <<>>

NullName == ""

getContextsDirectory(baseDirectory) == <<baseDirectory, BROWSER_CONTEXTS_DIRECTORY>>

getContextDirectory(contextName, baseDirectory) ==
  Append(getContextsDirectory(baseDirectory), contextName)

\* fs.existsSync(file) on a disk with the paths existing
existsSyncAlways(existing, file) == TRUE

existsSync(existing, file) == file \in existing

\* getExisting on a disk with the paths existing
getExisting(existing, fileName, baseDirectories, contextName) ==
  LET file(baseDirectory) ==
        IF contextName = NullName
        THEN <<baseDirectory, fileName>>
        ELSE Append(getContextDirectory(contextName, baseDirectory), fileName)
      mapped == [i \in 1..Len(baseDirectories) |->
                   IF baseDirectories[i] = NullDirectory THEN NullPath
                   ELSE IF existsSync(existing, file(baseDirectories[i]))
                        THEN file(baseDirectories[i])
                        ELSE NullPath]
  IN SelectSeq(mapped, LAMBDA f : f # NullPath)

\* the property names every object inherits from Object.prototype
ObjectPrototype == {"toString"}

\* req in options
In(req, object) == req \in DOMAIN object \/ req \in ObjectPrototype

\* Object.assign(target, source)
AssignMerging(target, source) ==
  [k \in (DOMAIN target) \cup (DOMAIN source) |->
     IF k \notin DOMAIN source THEN target[k]
     ELSE IF k \in DOMAIN target /\ target[k].type = "object" /\ source[k].type = "object"
     THEN JObject([n \in (DOMAIN target[k].props) \cup (DOMAIN source[k].props) |->
                     IF n \in DOMAIN source[k].props
                     THEN source[k].props[n] ELSE target[k].props[n]])
     ELSE source[k]]

Assign(target, source) ==
  [k \in (DOMAIN target) \cup (DOMAIN source) |->
     IF k \in DOMAIN source THEN source[k] ELSE target[k]]

\* lines 171-178 of readOptions: the objects of the files are assigned in order
RECURSIVE assignFiles(_, _, _)
assignFiles(files, object, paths) ==
  IF paths = <<>> THEN object
  ELSE assignFiles(files, Assign(object, files[Head(paths)]), Tail(paths))

\* the error of readOptions for the required option req
MissingRequiredOption(req) == [ok |-> FALSE, value |-> req]

\* readOptions on a disk with the JSON files files: readFileSync throws for
\* a path that is no file, JSON.parse for a file that holds no JSON
readOptions(files, paths, defaults, required) ==
  LET object == assignFiles(files, Assign(EmptyObject, defaults), paths)
      missing == SelectSeq(required, LAMBDA req : ~In(req, object))
  IN IF \E i \in 1..Len(paths) :
          paths[i] \notin DOMAIN files \/ files[paths[i]] = EmptyFile
     THEN Thrown
     ELSE IF missing # <<>> THEN MissingRequiredOption(Head(missing))
     ELSE Ok(object)

\* lines 289-293 of scripts.js: the names instantiateBrowserContexts goes through
ContextNames(listings) ==
  IF getContextDirectoryNames(listings) = {}
  THEN {BROWSER_CONTEXT_DEFAULT}
  ELSE getContextDirectoryNames(listings)

NoHash == [none |-> TRUE]

\* folderhash.hashElement(outputDirectory, {}): determined by the names and the
\* contents of all files of the tree, and by nothing else (not by the modes)
HashElement(tree) ==
  [log |-> tree.log, inputId |-> tree.inputId, data |-> tree.data, id |-> tree.id,
   contexts |-> tree.contexts, warcs |-> tree.warcs, userData |-> tree.userData]

\* the content of a userData directory: where it was copied from and how
\* many browser sessions have written to it since
EmptyUserData == [origin |-> "empty", sessions |-> 0]

\* the userData directories of the script directory (one for context b)
ScriptUserData == [c \in {"b"} |-> [origin |-> "script", sessions |-> 0]]

\* a directory right after it was created; contexts are the names of the
\* directories in its browserContexts directory, warcs those of them that
\* hold a warcs directory, userData gives the content of the userData
\* directory of those that hold one
EmptyTree == [log |-> <<>>, inputId |-> NoHash, data |-> 0, id |-> NoHash,
              contexts |-> {}, warcs |-> {}, userData |-> [c \in {} |-> EmptyUserData],
              locked |-> FALSE]

Exists(directory) == directory \in DOMAIN trees

\* the trees with the tree of directory set to tree (created if absent)
WithTree(directory, tree) ==
  [d \in (DOMAIN trees) \cup {directory} |-> IF d = directory THEN tree ELSE trees[d]]

\* log lines of the runner that the model follows
CleanupLine(c) == [msg |-> "scripts.run.cleanup", chainable |-> c]

ChmodDoneLineChainable == [msg |-> "scripts.run.cleanup", chainable |-> TRUE]

ChmodDoneLine == [msg |-> "scripts.run.chmod.done", chainable |-> FALSE]

\* the subprocesses of a browser context: the display server, the window
\* manager, the VNC server, the recording pywb and the replaying pywb
Subprocesses == {"xvfb", "lwm", "vnc", "warc", "replay"}

NoProcesses == [p \in Subprocesses |-> "none"]

\* no function of lib/files.js is called as a library
NoCall == [fn |-> "none"]

\* createTimeout, lines 160-171: the timer of a run, set only with a timeout
createTimeoutNever(hasTimeout) == "none"

createTimeout(hasTimeout) == IF hasTimeout THEN "armed" ELSE "none"

\* the record of a run that was just started
NewRun(inputDirectory, outputDirectory, chainNameGiven, hasTimeout) ==
  [inputDirectory |-> inputDirectory,
   outputDirectory |-> outputDirectory,
   chainNameGiven |-> chainNameGiven,
   \* the process of the run (docker.js) or the call of scripts.run (in process)
   process |-> "running",
   exit |-> "none",
   exitSeen |-> FALSE,
   timer |-> createTimeout(hasTimeout),
   logStreamOpen |-> TRUE,
   pipe |-> <<>>,
   result |-> "pending",
   \* scripts.run
   phase |-> "validating",
   \* per context name: the browser context, its tracing, the subprocesses
   \* started for it, its WARC collection, its close listeners
   contexts |-> [c \in {} |-> "new"],
   tracing |-> [c \in {} |-> "off"],
   processes |-> [c \in {} |-> NoProcesses],
   collection |-> [c \in {} |-> "none"],
   onClose |-> [c \in {} |-> {}],
   scriptOutcome |-> "none",
   runChainable |-> FALSE,
   fatalLogged |-> FALSE,
   hash |-> NoHash,
   idWritten |-> FALSE]

Current == Len(runs)

\* the values of chain.pattern followed: two placeholders of different
\* widths, no placeholder, a placeholder without the 0, not a string
ChainPatterns ==
  {JStr(<<"r", "%", "0", "2", "d", "-", "%", "0", "1", "d">>),
   JStr(<<"r", "u", "n">>),
   JStr(<<"r", "%", "2", "d">>),
   JNum(1)}

\* the values of chain.max that are no positive integer: 0, -1 and 1.5
InvalidMax == {JNum(0), JNum(-1), JFrac(1)}

ChainOptions ==
  {[given |-> FALSE, config |-> EmptyObject]} \cup
  {[given |-> TRUE, config |-> c] :
     c \in {EmptyObject} \cup
           {[k \in {"max"} |-> JNum(m)] : m \in 1..MaxMax} \cup
           {[k \in {"max"} |-> v] : v \in InvalidMax} \cup
           {[k \in {"start"} |-> JNum(n)] : n \in 2..MaxStart} \cup
           {[k \in {"start", "max"} |-> IF k = "start" THEN JNum(n) ELSE JNum(m)] :
               n \in 2..MaxStart, m \in 1..MaxMax} \cup
           {[k \in {"pattern"} |-> p] : p \in ChainPatterns}}

\* the run options and directories that decide the browser contexts:
\* --show-browser, --no-warc, --replay, the listing of the browserContexts
\* directory of the script, the context directories of the input directory,
\* the contexts for which the script directory holds a warcs directory, and
\* the contexts whose browser.json names a browser type Playwright lacks
SessionOptions ==
  [showBrowser : BOOLEAN,
   warc : BOOLEAN,
   replay : {"not", "r", "rw", "x"},
   scriptContexts : {{}, {Directory("a"), File("f")}, {Directory("a"), Directory("b")}},
   inputContexts : {{}, {"b"}},
   warcs : {{}, {"a"}, {"a", "b"}},
   unknownBrowserType : {{}, {"b"}}]

\* run-options.js DEFAULT, for a script with the contexts a and b
DefaultSession ==
  [showBrowser |-> FALSE, warc |-> TRUE, replay |-> "not",
   scriptContexts |-> {Directory("a"), Directory("b")}, inputContexts |-> {},
   warcs |-> {}, unknownBrowserType |-> {}]

\* the entries at the paths of the command line when all are as they should be
EntriesOk == [script |-> "directory", input |-> "directory", output |-> "directory"]

\* the command lines followed: a timeout is followed for the single run and
\* for the chain of MaxMax runs, session options other than the defaults for
\* the single run, and a chain pattern, a value of --unrandomize other than
\* the default, an invalid value of --replay and entries that are no
\* directories with the defaults for the rest
OptionsSet ==
  {o \in [input : {NullDirectory, InitialInput},
          chain : ChainOptions,
          timeout : BOOLEAN,
          tracing : BOOLEAN,
          session : SessionOptions,
          unrandomize : {"constant", "not", "x"},
          entries : [script : EntryKinds, input : EntryKinds,
                     output : {"directory", "file", "used"}]] :
     /\ o.input = NullDirectory => o.entries.input = "directory"
     /\ o.session.replay = "x" => o.session = [DefaultSession EXCEPT !.replay = "x"]
     /\ (\/ o.entries # EntriesOk
         \/ o.unrandomize # "constant"
         \/ o.session.replay = "x"
         \/ "pattern" \in DOMAIN o.chain.config) =>
          /\ o.session \in {DefaultSession, [DefaultSession EXCEPT !.replay = "x"]}
          /\ ~o.timeout
          /\ o.tracing
          /\ DOMAIN o.chain.config \subseteq {"pattern"}
     /\ o.session.replay = "x" => ~o.chain.given
     /\ o.unrandomize # "constant" => ~o.chain.given
     /\ o.timeout =>
          /\ o.input = NullDirectory
          /\ o.tracing
          /\ o.chain.given => o.chain.config = [k \in {"max"} |-> JNum(MaxMax)]
     /\ o.session # DefaultSession =>
          /\ ~o.chain.given
          /\ ~o.timeout
          /\ o.tracing
     /\ o.session.replay = "not" => o.session.warcs = {}
     /\ o.input = NullDirectory => o.session.inputContexts = {}}

\* line 27 of docker.js: the chain configuration of the command line
ChainConfiguration == getChainConfigurationCli(options.chain)

\* the run numbers of which one names the run directory that an earlier
\* invocation of the chain left in a used output directory
UsedRunNumbers == {1, 2}

\* the directory of run runNumber of an earlier invocation with the same
\* pattern (the default one without --chain)
UsedRunDirectory(runNumber) ==
  getRunOutputDirectory(OutputDirectory,
                        IF ChainConfiguration.chain THEN ChainConfiguration.pattern
                        ELSE CHAIN_PATTERN_DEFAULT,
                        runNumber)

\* the tree a run of docker.js leaves: logs/scriptor.log, the files of the
\* script, the id file with the hash of the tree, all of it locked
UsedTree ==
  LET tree == [EmptyTree EXCEPT !.log = <<CleanupLine(TRUE)>>, !.data = 1]
  IN [tree EXCEPT !.id = HashElement(tree), !.locked = TRUE]

Init ==
  /\ strategy \in {"counter", "persisted"}
  /\ options \in OptionsSet
  /\ strategy = "persisted" =>
       /\ options.chain.given
       /\ DOMAIN options.chain.config \subseteq {"max"}
       /\ Get(options.chain.config, "max") \notin InvalidMax
       /\ options.entries.output # "used"
       /\ options.input = NullDirectory
       /\ ~options.timeout
       /\ getRunOptions(options.session.replay, options.unrandomize)
  /\ jsonFiles = [f \in {} |-> EmptyObject]
  /\ faults = {}
  /\ \E used \in IF options.entries.output = "used" THEN UsedRunNumbers ELSE {0} :
       trees = [d \in (IF options.entries.input = "directory" THEN {InitialInput} ELSE {})
                        \cup (IF used = 0 THEN {} ELSE {UsedRunDirectory(used)}) |->
                  IF d = InitialInput
                  THEN [EmptyTree EXCEPT !.data = 1,
                                         !.contexts = options.session.inputContexts,
                                         !.userData = [c \in options.session.inputContexts |->
                                                         [origin |-> "input", sessions |-> 0]]]
                  ELSE UsedTree]
  /\ driver = [pc |-> "start", run |-> 0, inputDirectory |-> NullDirectory,
               restarts |-> 0]
  /\ chainable = FALSE
  /\ runs = <<>>
  /\ call = NoCall

(***************************************************************************)
(* lib/docker.js: the chain driver of the counter-in-filename strategy     *)
(***************************************************************************)
\* run: the options are read; without --chain the single run is started
DockerRun ==
  /\ strategy = "counter"
  /\ driver.pc = "start"
  /\ IF \/ ~getRunOptions(options.session.replay, options.unrandomize)
        \/ ~getInputDirectory(options.input # NullDirectory, options.entries)
        \/ ~getOutputDirectory(options.chain, options.entries)
        \/ ~ChainConfiguration.ok
     THEN /\ driver' = [driver EXCEPT !.pc = "threw"]
          /\ UNCHANGED <<trees, runs, chainable>>
     ELSE IF ChainConfiguration.chain
     THEN /\ driver' = [driver EXCEPT !.pc = "loop", !.run = 0,
                                      !.inputDirectory = options.input]
          /\ UNCHANGED <<trees, runs, chainable>>
     ELSE IF ~getScriptDirectory(options.entries)
     THEN \* getArgs throws in runOnce, runOnceSafe gives false
          /\ driver' = [driver EXCEPT !.pc = "returnedFalse"]
          /\ trees' = WithTree(SingleOutputDirectory, EmptyTree)
          /\ UNCHANGED <<runs, chainable>>
     ELSE /\ driver' = [driver EXCEPT !.pc = "awaitSingle",
                                      !.inputDirectory = options.input]
          /\ trees' = WithTree(SingleOutputDirectory, EmptyTree)
          /\ runs' = Append(runs, NewRun(options.input, SingleOutputDirectory,
                                         FALSE, options.timeout))
          /\ chainable' = FALSE
  /\ UNCHANGED <<jsonFiles, strategy, options, call, faults>>

\* line 49: the input directory of the next run
NextInputDirectoryKeep(inputDirectory, runOutputDirectory) == inputDirectory

NextInputDirectory(inputDirectory, runOutputDirectory) == runOutputDirectory

\* lines 31-43: the next run of the chain is started (runOnce up to its await)
ChainNext ==
  /\ strategy = "counter"
  /\ driver.pc = "loop"
  /\ ChainConfiguration.max.type = "undefined" \/ driver.run < ChainConfiguration.max.num
  /\ Len(runs) < MaxRuns
  /\ \E runNumber \in {ChainConfiguration.start + driver.run} :
     \E runOutputDirectory \in
         {getRunOutputDirectory(OutputDirectory, ChainConfiguration.pattern, runNumber)} :
        IF Exists(runOutputDirectory)
        THEN \* mkdirSync(logDirectory) throws, runOnceSafe gives false
             /\ driver' = [driver EXCEPT !.pc = "complete"]
             /\ UNCHANGED <<trees, runs, chainable>>
        ELSE IF ~getScriptDirectory(options.entries)
        THEN \* getArgs throws in runOnce, runOnceSafe gives false
             /\ driver' = [driver EXCEPT !.pc = "complete"]
             /\ trees' = WithTree(runOutputDirectory, EmptyTree)
             /\ UNCHANGED <<runs, chainable>>
        ELSE /\ trees' = WithTree(runOutputDirectory, EmptyTree)
             /\ runs' = Append(runs, NewRun(driver.inputDirectory, runOutputDirectory,
                                            FALSE, options.timeout))
             /\ chainable' = FALSE
             /\ driver' = [driver EXCEPT !.pc = "await"]
  /\ UNCHANGED <<jsonFiles, strategy, options, call, faults>>

\* lines 31, 51-52: the loop ends because max runs were made
ChainMaxRunsReached ==
  /\ strategy = "counter"
  /\ driver.pc = "loop"
  /\ ChainConfiguration.max.type # "undefined"
  /\ ~(driver.run < ChainConfiguration.max.num)
  /\ driver' = [driver EXCEPT !.pc = "maxRunsReached"]
  /\ UNCHANGED <<jsonFiles, strategy, options, call, faults, trees, runs, chainable>>

\* the driver after runOnceSafe of the current run gave result (lines 44-50)
AfterRunNoStop(result, outputDirectory) ==
  IF driver.pc = "awaitSingle"
  THEN [driver EXCEPT !.pc = IF result THEN "returnedTrue" ELSE "returnedFalse"]
  ELSE [driver EXCEPT !.pc = "loop", !.run = driver.run + 1,
          !.inputDirectory = NextInputDirectory(driver.inputDirectory, outputDirectory)]

AfterRun(result, outputDirectory) ==
  IF driver.pc = "awaitSingle"
  THEN [driver EXCEPT !.pc = IF result THEN "returnedTrue" ELSE "returnedFalse"]
  ELSE IF ~result
  THEN [driver EXCEPT !.pc = "complete"]
  ELSE [driver EXCEPT !.pc = "loop", !.run = driver.run + 1,
          !.inputDirectory = NextInputDirectory(driver.inputDirectory, outputDirectory)]

\* lines 131-142: a line of the standard output of run k is delivered
OnLine(k) ==
  /\ strategy = "counter"
  /\ driver.pc # "crashed"
  /\ runs[k].pipe # <<>>
  /\ LET line == Head(runs[k].pipe)
         directory == runs[k].outputDirectory
     IN /\ chainable' = IF line.msg = "scripts.run.cleanup" /\ line.chainable
                        THEN TRUE ELSE chainable
        /\ runs' = [runs EXCEPT ![k].pipe = Tail(runs[k].pipe)]
        /\ IF runs[k].logStreamOpen
           THEN \* the stream was opened before the tree was locked
                /\ trees' = [trees EXCEPT ![directory].log = Append(@, line.msg)]
                /\ UNCHANGED driver
           ELSE \* write after end: an 'error' event nobody listens to
                /\ driver' = [driver EXCEPT !.pc = "crashed"]
                /\ UNCHANGED trees
  /\ UNCHANGED <<jsonFiles, strategy, options, call, faults>>

\* line 147: clearTimeout of the timer of the run
clearTimeoutNot(timer) == timer

clearTimeout(timer) == IF timer = "armed" THEN "cleared" ELSE timer

\* lines 145-150: the exit event of the process of run k
OnExit(k) ==
  /\ strategy = "counter"
  /\ driver.pc # "crashed"
  /\ runs[k].process = "ended"
  /\ ~runs[k].exitSeen
  /\ runs' = [runs EXCEPT ![k].exitSeen = TRUE,
                          ![k].timer = clearTimeout(@),
                          ![k].logStreamOpen = FALSE,
                          ![k].result = IF chainable THEN "true" ELSE "false"]
  /\ driver' = IF k = Current /\ driver.pc \in {"await", "awaitSingle"}
               THEN AfterRun(chainable, runs[k].outputDirectory)
               ELSE driver
  /\ UNCHANGED <<jsonFiles, strategy, options, call, faults, trees, chainable>>

\* lines 166-169: the timeout of run k fires and kills its process
OnTimeout(k) ==
  /\ strategy = "counter"
  /\ driver.pc # "crashed"
  /\ runs[k].timer = "armed"
  /\ runs' = [runs EXCEPT ![k].timer = "fired",
                          ![k].process = "ended",
                          ![k].exit = IF runs[k].process = "running" THEN "killed" ELSE @]
  /\ UNCHANGED <<jsonFiles, strategy, options, call, faults, trees, driver, chainable>>

(***************************************************************************)
(* lib/scripts.js: one run of the script runner.  Its steps are taken      *)
(* while the process (or the call) of run k is alive.                      *)
(***************************************************************************)
Alive(k) == k \in 1..Len(runs) /\ runs[k].process = "running"

\* the standard output of run k with one more line (read by docker.js only)
Logged(k, line) ==
  IF strategy = "counter" THEN Append(runs[k].pipe, line) ELSE runs[k].pipe

\* run k ends because scripts.run threw or rejected
Rejected(k) ==
  [runs EXCEPT ![k].process = "ended",
               ![k].exit = "error",
               ![k].result = IF strategy = "counter" THEN @ ELSE "rejected"]

\* the listings of the browserContexts directories of [scriptDirectory,
\* inputDirectory] without the null directory
ContextListings(inputDirectory) ==
  <<options.session.scriptContexts>> \o
  (IF inputDirectory = NullDirectory THEN <<>>
   ELSE <<{Directory(c) : c \in trees[inputDirectory].contexts}>>)

\* lines 74-99 and 287-346, up to the first await: the directories are
\* checked, the id of the input is copied forward, the context names are
\* read and for each of them the context directory of the output is made and
\* browser.json is written into it.  The writes into an output directory
\* that is locked already fail (EACCES for every user but root): run rejects
Validate(k) ==
  /\ Alive(k)
  /\ runs[k].phase = "validating"
  /\ LET output == runs[k].outputDirectory
         input == runs[k].inputDirectory
         tree == IF Exists(output) THEN trees[output] ELSE EmptyTree
         copyId == input # NullDirectory /\ trees[input].id # NoHash
         names == ContextNames(ContextListings(input))
         directoriesOk ==
           /\ checkDirectory(options.entries.script)
           /\ options.entries.output # "file"
           /\ input # NullDirectory => Exists(input)
     IN IF ~directoriesOk \/ tree.locked
        THEN /\ runs' = Rejected(k)
             /\ UNCHANGED trees
        ELSE /\ trees' = WithTree(output,
                            [tree EXCEPT
                               !.inputId = IF copyId THEN trees[input].id ELSE @,
                               !.contexts = @ \cup names])
             /\ runs' = [runs EXCEPT ![k].phase = "preparing-sessions",
                                     ![k].contexts = [c \in names |-> "new"],
                                     ![k].tracing = [c \in names |-> "off"],
                                     ![k].processes = [c \in names |-> NoProcesses],
                                     ![k].collection = [c \in names |-> "none"],
                                     ![k].onClose = [c \in names |-> {}]]
  /\ UNCHANGED <<jsonFiles, strategy, options, call, faults, driver, chainable>>

\* prepare4ShowBrowser: whether xvfb, lwm and vnc are started
prepare4ShowBrowser(session) == session.showBrowser

\* prepare4Warc: whether a collection is initialized and the recording pywb
\* is started
prepare4WarcAlways(session) == session.warc

prepare4Warc(session) == session.warc /\ session.replay = "not"

\* prepare4Replay, lines 596-598: the warcs directories of the context that
\* exist in [inputDirectory, scriptDirectory]
sourcePywbDirectories(c, inputDirectory) ==
  (IF inputDirectory # NullDirectory /\ c \in trees[inputDirectory].warcs
   THEN <<"input">> ELSE <<>>) \o
  (IF c \in options.session.warcs THEN <<"script">> ELSE <<>>)

\* prepare4Replay: "none" without --replay, "throws" without a warcs
\* directory to replay from, else "started"
prepare4Replay(session, c, inputDirectory) ==
  IF session.replay = "not" THEN "none"
  ELSE IF Len(sourcePywbDirectories(c, inputDirectory)) = 0 THEN "throws"
  ELSE "started"

\* fs.copySync(source, destination): the files of the source are written
\* over those of the destination, which keeps its other files
copySync(source, existing, destination) ==
  IF ~existing \/ destination = source THEN source
  ELSE [origin |-> "merged", sessions |-> 0]

sourceUserDataDirectoriesScriptFirst(c, inputDirectory) ==
  (IF c \in DOMAIN ScriptUserData THEN <<ScriptUserData[c]>> ELSE <<>>) \o
  (IF inputDirectory # NullDirectory /\ c \in DOMAIN trees[inputDirectory].userData
   THEN <<trees[inputDirectory].userData[c]>> ELSE <<>>)

\* the userData directories of context c in [inputDirectory, scriptDirectory]
sourceUserDataDirectories(c, inputDirectory) ==
  (IF inputDirectory # NullDirectory /\ c \in DOMAIN trees[inputDirectory].userData
   THEN <<trees[inputDirectory].userData[c]>> ELSE <<>>) \o
  (IF c \in DOMAIN ScriptUserData THEN <<ScriptUserData[c]>> ELSE <<>>)

\* lines 671-694: the content of the userData directory of context c in the
\* output directory after prepare4UserData
prepare4UserData(c, outputDirectory, inputDirectory) ==
  LET sources == sourceUserDataDirectories(c, inputDirectory)
      existing == c \in DOMAIN trees[outputDirectory].userData
      destination == IF existing THEN trees[outputDirectory].userData[c] ELSE EmptyUserData
  IN IF sources # <<>> THEN copySync(Head(sources), existing, destination)
     ELSE destination

\* lines 348-362 of instantiateBrowserContext: the options of context c are
\* prepared and the subprocesses the run options ask for are started
PrepareContext(k, c) ==
  /\ Alive(k)
  /\ runs[k].phase = "preparing-sessions"
  /\ runs[k].contexts[c] = "new"
  /\ LET session == options.session
         show == prepare4ShowBrowser(session)
         record == prepare4Warc(session)
         replay == prepare4Replay(session, c, runs[k].inputDirectory)
     IN /\ runs' = [runs EXCEPT
              ![k].contexts[c] = IF replay = "throws" THEN "failed" ELSE "prepared",
              ![k].processes[c] =
                 [p \in Subprocesses |->
                    IF \/ p \in {"xvfb", "lwm", "vnc"} /\ show
                       \/ p = "warc" /\ record
                       \/ p = "replay" /\ replay = "started"
                    THEN "running" ELSE "none"],
              ![k].collection[c] = IF record THEN "fresh"
                                   ELSE IF replay = "started" THEN "copied"
                                   ELSE "none"]
        /\ trees' = [trees EXCEPT
              ![runs[k].outputDirectory].warcs =
                 IF record \/ replay = "started" THEN @ \cup {c} ELSE @,
              ![runs[k].outputDirectory].userData =
                 IF replay = "throws" THEN @
                 ELSE [d \in (DOMAIN @) \cup {c} |->
                         IF d = c
                         THEN prepare4UserData(c, runs[k].outputDirectory,
                                               runs[k].inputDirectory)
                         ELSE @[d]]]
  /\ UNCHANGED <<jsonFiles, strategy, options, call, faults, driver, chainable>>

\* lines 363-374: playwright[browserType].launchPersistentContext; the
\* browser that comes up keeps its state in the userData directory
LaunchContext(k, c) ==
  /\ Alive(k)
  /\ runs[k].phase = "preparing-sessions"
  /\ runs[k].contexts[c] = "prepared"
  /\ runs' = [runs EXCEPT ![k].contexts[c] =
                 IF c \in options.session.unknownBrowserType THEN "failed"
                 ELSE "launched"]
  /\ trees' = IF c \in options.session.unknownBrowserType THEN trees
              ELSE [trees EXCEPT ![runs[k].outputDirectory].userData[c].sessions = @ + 1]
  /\ UNCHANGED <<jsonFiles, strategy, options, call, faults, driver, chainable>>

\* lines 373-374: launchPersistentContext rejects because the browser does
\* not come up (followed once in a behaviour)
LaunchFails(k, c) ==
  /\ Alive(k)
  /\ runs[k].phase = "preparing-sessions"
  /\ runs[k].contexts[c] = "prepared"
  /\ "launch" \notin faults
  /\ faults' = faults \cup {"launch"}
  /\ runs' = [runs EXCEPT ![k].contexts[c] = "failed"]
  /\ UNCHANGED <<jsonFiles, strategy, options, call, trees, driver, chainable>>

\* lines 376-403: tracing and the Math.random replacement are started, the
\* close listeners are registered, the context is put into browserContexts
SetupContext(k, c) ==
  /\ Alive(k)
  /\ runs[k].phase = "preparing-sessions"
  /\ runs[k].contexts[c] = "launched"
  /\ runs' = [runs EXCEPT
        ![k].contexts[c] = "open",
        ![k].tracing[c] = IF options.tracing THEN "on" ELSE "off",
        ![k].onClose[c] =
           (IF runs[k].processes[c]["lwm"] # "none" THEN {"showBrowser"} ELSE {}) \cup
           (IF runs[k].processes[c]["warc"] # "none" THEN {"warc"} ELSE {}) \cup
           (IF runs[k].processes[c]["replay"] # "none" THEN {"replay"} ELSE {})]
  /\ UNCHANGED <<jsonFiles, strategy, options, call, faults, trees, driver, chainable>>

\* pywb.js lines 314-324, the exit listener of a wayback process: what it
\* does for an exit with a code (signal === null) and for the end by a signal
onWaybackExitLogsOnly(code, signal) == "logged"

onWaybackExit(code, signal) ==
  IF code # 0 THEN (IF signal = "null" THEN "throws" ELSE "logged")
  ELSE "nothing"

\* the exit codes and signals followed for a wayback process that exits by
\* itself with a code
WaybackExits == {[code |-> 0, signal |-> "null"], [code |-> 1, signal |-> "null"]}

\* a wayback process of context c of run k exits by itself before the context
\* is closed (followed once in a behaviour); an Error thrown by the exit
\* listener is an uncaught exception, which ends the process of the run
ProxyExits(k, c, p, exit) ==
  /\ Alive(k)
  /\ p \in {"warc", "replay"}
  /\ runs[k].processes[c][p] = "running"
  /\ "proxy" \notin faults
  /\ faults' = faults \cup {"proxy"}
  /\ LET died == [runs EXCEPT ![k].processes[c][p] =
                                IF exit.code = 0 THEN "exited" ELSE "crashed"]
     IN runs' = IF onWaybackExit(exit.code, exit.signal) = "throws"
                THEN [died EXCEPT ![k].process = "ended",
                                  ![k].exit = "error",
                                  ![k].result = IF strategy = "counter" THEN @
                                                ELSE "rejected"]
                ELSE died
  /\ UNCHANGED <<jsonFiles, strategy, options, call, trees, driver, chainable>>

InstantiateFailsIgnored(k) ==
  /\ Alive(k)
  /\ runs[k].phase = "preparing-sessions"
  /\ \E c \in DOMAIN runs[k].contexts : runs[k].contexts[c] = "failed"
  /\ runs' = [runs EXCEPT ![k].phase = "executing-script"]
  /\ UNCHANGED <<jsonFiles, strategy, options, call, faults, trees, driver, chainable>>

\* lines 98-99, 299-306: Promise.all rejects with the first context that
\* failed, the await in run throws and run rejects
InstantiateFails(k) ==
  /\ Alive(k)
  /\ runs[k].phase = "preparing-sessions"
  /\ \E c \in DOMAIN runs[k].contexts : runs[k].contexts[c] = "failed"
  /\ runs' = Rejected(k)
  /\ UNCHANGED <<jsonFiles, strategy, options, call, faults, trees, driver, chainable>>

\* lines 299-306: Promise.all resolves when every context is put into
\* browserContexts
ContextsReadyAny(k) ==
  \E c \in DOMAIN runs[k].contexts : runs[k].contexts[c] = "open"

ContextsReady(k) ==
  \A c \in DOMAIN runs[k].contexts : runs[k].contexts[c] = "open"

\* lines 98-104: all contexts are set up, script.run is called
InvokeScript(k) ==
  /\ Alive(k)
  /\ runs[k].phase = "preparing-sessions"
  /\ ContextsReady(k)
  /\ runs' = [runs EXCEPT ![k].phase = "executing-script"]
  /\ UNCHANGED <<jsonFiles, strategy, options, call, faults, trees, driver, chainable>>

\* what script.run can settle with: it resolves with true, with false, with a
\* value that is truthy but not true, or it rejects
ScriptOutcomes == {"true", "false", "truthy", "reject"}

\* lines 105-109: chainable = (true === await execution), false after the catch
ChainableOfCoerced(outcome) == outcome \in {"true", "truthy"}

ChainableOf(outcome) == outcome = "true"

\* the phase after the script settled
PhaseAfterScriptAbort(outcome) ==
  IF outcome = "reject" THEN "locked" ELSE "tearing-down"

PhaseAfterScript(outcome) == "tearing-down"

\* lines 103-112: the script settles; it has written its output
ScriptSettles(k, outcome) ==
  /\ Alive(k)
  /\ runs[k].phase = "executing-script"
  /\ runs' = [runs EXCEPT ![k].phase = PhaseAfterScript(outcome),
                          ![k].scriptOutcome = outcome,
                          ![k].runChainable = ChainableOf(outcome),
                          ![k].fatalLogged = (outcome = "reject"),
                          ![k].pipe = Logged(k, CleanupLine(ChainableOf(outcome)))]
  /\ trees' = [trees EXCEPT ![runs[k].outputDirectory].data = 1]
  /\ UNCHANGED <<jsonFiles, strategy, options, call, faults, driver, chainable>>

\* line 117: stopTracing of context c
StopTracing(k, c) ==
  /\ Alive(k)
  /\ runs[k].phase = "tearing-down"
  /\ runs[k].contexts[c] = "open"
  /\ runs' = [runs EXCEPT ![k].contexts[c] = "traceStopped",
                          ![k].tracing[c] = IF @ = "on" THEN "stopped" ELSE @]
  /\ UNCHANGED <<jsonFiles, strategy, options, call, faults, trees, driver, chainable>>

\* lines 381-399: the subprocesses the close listeners kill through their
\* process objects: lwm.kill(), warcProcess.kill(), replayProcess.kill()
TerminatedOnClose(listeners) ==
  (IF "showBrowser" \in listeners THEN {"lwm"} ELSE {}) \cup
  (IF "warc" \in listeners THEN {"warc"} ELSE {}) \cup
  (IF "replay" \in listeners THEN {"replay"} ELSE {})

\* line 385 and vnc.stop: "x11vnc --remote stop" names no process; it is a
\* command to the x11vnc servers of DISPLAY, the one display of all contexts
\* of the run.  The contexts whose server it can stop: some of those that run
VncStopped(k, listeners) ==
  LET servers == {d \in DOMAIN runs[k].contexts : runs[k].processes[d]["vnc"] = "running"}
  IN IF "showBrowser" \in listeners /\ servers # {}
     THEN (SUBSET servers) \ {{}}
     ELSE {{}}

\* line 118: browserContext.close() of context c, which emits close; the
\* wayback processes that are killed exit by the signal, and the exit
\* listener of pywb.js runs for each of them
CloseContext(k, c) ==
  /\ Alive(k)
  /\ runs[k].phase = "tearing-down"
  /\ runs[k].contexts[c] = "traceStopped"
  /\ \E stopped \in VncStopped(k, runs[k].onClose[c]) :
       LET killed == {p \in TerminatedOnClose(runs[k].onClose[c]) :
                        runs[k].processes[c][p] = "running"}
           throws == /\ killed \cap {"warc", "replay"} # {}
                     \* kill() is SIGTERM: the code is null, written -1 here
                     /\ onWaybackExit(-1, "SIGTERM") = "throws"
       IN runs' = [runs EXCEPT
            ![k].contexts[c] = "closed",
            ![k].processes =
               [d \in DOMAIN runs[k].contexts |->
                  [p \in Subprocesses |->
                     IF \/ d = c /\ p \in killed
                        \/ p = "vnc" /\ d \in stopped
                     THEN "terminated" ELSE @[d][p]]],
            ![k].process = IF throws THEN "ended" ELSE @,
            ![k].exit = IF throws THEN "error" ELSE @,
            ![k].result = IF throws /\ strategy # "counter" THEN "rejected" ELSE @]
  /\ UNCHANGED <<jsonFiles, strategy, options, call, faults, trees, driver, chainable>>

\* the contexts that have to be closed before the tree is hashed
ContextsToJoinAny(k) == {CHOOSE c \in DOMAIN runs[k].contexts : TRUE}

ContextsToJoin(k) == DOMAIN runs[k].contexts

\* lines 121-123: all contexts are closed, the tree is hashed
HashTree(k) ==
  /\ Alive(k)
  /\ runs[k].phase = "tearing-down"
  /\ \A c \in ContextsToJoin(k) : runs[k].contexts[c] = "closed"
  /\ runs' = [runs EXCEPT ![k].phase = "hashing",
                          ![k].hash = HashElement(trees[runs[k].outputDirectory])]
  /\ UNCHANGED <<jsonFiles, strategy, options, call, faults, trees, driver, chainable>>

\* line 126: the hash is written to the id file of the tree
WriteIdFile(k) ==
  /\ Alive(k)
  /\ runs[k].phase = "hashing"
  /\ ~runs[k].idWritten
  /\ trees' = [trees EXCEPT ![runs[k].outputDirectory].id = runs[k].hash]
  /\ runs' = [runs EXCEPT ![k].idWritten = TRUE]
  /\ UNCHANGED <<jsonFiles, strategy, options, call, faults, driver, chainable>>

\* lines 127-129: chmodr.sync(outputDirectory, 0o444)
Chmod(k) ==
  /\ Alive(k)
  /\ runs[k].phase = "hashing"
  /\ runs[k].idWritten
  /\ trees' = [trees EXCEPT ![runs[k].outputDirectory].locked = TRUE]
  /\ runs' = [runs EXCEPT ![k].phase = "locked",
                          ![k].pipe = Logged(k, ChmodDoneLine)]
  /\ UNCHANGED <<jsonFiles, strategy, options, call, faults, driver, chainable>>

\* lines 130-133: the chain configuration is stepped, the run returns chainable
Finish(k) ==
  /\ Alive(k)
  /\ runs[k].phase = "locked"
  /\ LET stepped == steppedChainConfiguration(ChainName, runs[k].outputDirectory)
         throws == runs[k].chainNameGiven /\ ~stepped.ok
     IN /\ jsonFiles' = IF runs[k].chainNameGiven /\ stepped.ok
                        THEN filesAfterStep(ChainName, runs[k].outputDirectory)
                        ELSE jsonFiles
        /\ runs' = [runs EXCEPT
              ![k].process = "ended",
              ![k].exit = IF throws THEN "error" ELSE "ok",
              \* in process the caller gets the value; docker.js reads the output
              ![k].result = IF strategy = "counter" THEN @
                            ELSE IF throws THEN "rejected"
                            ELSE IF runs[k].runChainable THEN "true" ELSE "false"]
  /\ UNCHANGED <<strategy, options, call, faults, trees, driver, chainable>>

\* line 186 of chain.js: fs.writeFileSync opens the file with O_TRUNC and then
\* writes; the process of run k is killed between the two
KilledInWrite(k) ==
  /\ Alive(k)
  /\ runs[k].phase = "locked"
  /\ runs[k].chainNameGiven
  /\ steppedChainConfiguration(ChainName, runs[k].outputDirectory).ok
  /\ LET chainConfigurationFile ==
           PathJoin(PathDirname(runs[k].outputDirectory), ChainName \o JsonSuffix)
     IN jsonFiles' = [f \in (DOMAIN jsonFiles) \cup {chainConfigurationFile} |->
                        IF f = chainConfigurationFile THEN EmptyFile ELSE jsonFiles[f]]
  /\ faults' = faults \cup {"killed"}
  /\ runs' = [runs EXCEPT ![k].process = "ended",
                          ![k].exit = "killed",
                          ![k].result = "killed"]
  /\ UNCHANGED <<strategy, options, call, trees, driver, chainable>>

(***************************************************************************)
(* The chain driver of the persisted-state strategy: every invocation      *)
(* reads the chain configuration file, runs the script with the chain name *)
(* and goes on while the run is chainable and max is not reached.          *)
(***************************************************************************)
PersistedMax == Get(options.chain.config, "max")

ChainInvoke ==
  /\ strategy = "persisted"
  /\ driver.pc = "start"
  /\ Len(runs) < MaxRuns
  /\ LET output == getChainOutputDirectory(ChainName, OutputDirectory, NUM_DIGITS_DEFAULT)
         input == getChainInputDirectory(ChainName, OutputDirectory)
     IN IF ~output.ok
        THEN /\ driver' = [driver EXCEPT !.pc = "failed"]
             /\ UNCHANGED runs
        ELSE /\ runs' = Append(runs, NewRun(input, output.value, TRUE, FALSE))
             /\ driver' = [driver EXCEPT !.pc = "await", !.inputDirectory = input]
  /\ UNCHANGED <<jsonFiles, strategy, options, call, faults, trees, chainable>>

ChainAfterRun ==
  /\ strategy = "persisted"
  /\ driver.pc = "await"
  /\ runs[Current].process = "ended"
  /\ driver' =
       IF runs[Current].result \in {"rejected", "killed"}
       THEN [driver EXCEPT !.pc = "failed"]
       ELSE IF runs[Current].result = "false" THEN [driver EXCEPT !.pc = "complete"]
       ELSE IF PersistedMax.type # "undefined" /\ driver.run + 1 >= PersistedMax.num
       THEN [driver EXCEPT !.pc = "maxRunsReached", !.run = driver.run + 1]
       ELSE [driver EXCEPT !.pc = "start", !.run = driver.run + 1]
  /\ UNCHANGED <<jsonFiles, strategy, options, call, faults, trees, chainable, runs>>

\* the values of nextIndex a chain configuration file can come to hold while
\* no driver runs (the file is edited or restored): not a number, not an
\* integer, not positive, or the index of a run that is completed already
EditedIndexes(nextIndex) ==
  {JStr(NumberToString(nextIndex)), JFrac(nextIndex), JNum(0)} \cup
  {JNum(n) : n \in 1..(nextIndex - 1)}

\* the driver process ended and is started again on the same output directory;
\* the chain configuration file is as it was left or was edited in between
Restart ==
  /\ strategy = "persisted"
  /\ driver.pc \in {"complete", "maxRunsReached", "failed"}
  /\ driver.restarts < MaxRestarts
  /\ driver' = [pc |-> "start", run |-> 0, inputDirectory |-> NullDirectory,
                restarts |-> driver.restarts + 1]
  /\ \/ UNCHANGED <<jsonFiles, faults>>
     \/ /\ PathJoin(OutputDirectory, ChainName \o JsonSuffix) \in DOMAIN jsonFiles
        /\ LET file == PathJoin(OutputDirectory, ChainName \o JsonSuffix)
               nextIndex == Get(jsonFiles[file], "nextIndex")
           IN /\ jsonFiles[file] # EmptyFile
              /\ \E edited \in EditedIndexes(nextIndex.num) :
                   jsonFiles' = [jsonFiles EXCEPT ![file] = Put(@, "nextIndex", edited)]
        /\ faults' = faults \cup {"edited"}
  /\ UNCHANGED <<strategy, options, call, trees, chainable, runs>>

(***************************************************************************)
(* The specification.                                                      *)
(***************************************************************************)
Next ==
  \/ DockerRun
  \/ ChainNext
  \/ ChainMaxRunsReached
  \/ \E k \in 1..Len(runs) : OnLine(k)
  \/ \E k \in 1..Len(runs) : OnExit(k)
  \/ \E k \in 1..Len(runs) : OnTimeout(k)
  \/ \E k \in 1..Len(runs) : Validate(k)
  \/ \E k \in 1..Len(runs) : \E c \in DOMAIN runs[k].contexts : PrepareContext(k, c)
  \/ \E k \in 1..Len(runs) : \E c \in DOMAIN runs[k].contexts : LaunchContext(k, c)
  \/ \E k \in 1..Len(runs) : \E c \in DOMAIN runs[k].contexts : LaunchFails(k, c)
  \/ \E k \in 1..Len(runs) : \E c \in DOMAIN runs[k].contexts : SetupContext(k, c)
  \/ \E k \in 1..Len(runs) : InstantiateFails(k)
  \/ \E k \in 1..Len(runs) : InvokeScript(k)
  \/ \E k \in 1..Len(runs), outcome \in ScriptOutcomes : ScriptSettles(k, outcome)
  \/ \E k \in 1..Len(runs) : \E c \in DOMAIN runs[k].contexts : StopTracing(k, c)
  \/ \E k \in 1..Len(runs) : \E c \in DOMAIN runs[k].contexts : CloseContext(k, c)
  \/ \E k \in 1..Len(runs) : HashTree(k)
  \/ \E k \in 1..Len(runs) : WriteIdFile(k)
  \/ \E k \in 1..Len(runs) : Chmod(k)
  \/ \E k \in 1..Len(runs) : Finish(k)
  \/ \E k \in 1..Len(runs) : KilledInWrite(k)
  \/ ChainInvoke
  \/ ChainAfterRun
  \/ Restart

Spec == Init /\ [][Next]_vars

\* the steps the event loop of docker.js and the process of a run take by
\* themselves: every step but the settling of the user script
Scheduled ==
  \/ DockerRun
  \/ ChainNext
  \/ ChainMaxRunsReached
  \/ \E k \in 1..Len(runs) : OnLine(k)
  \/ \E k \in 1..Len(runs) : OnExit(k)
  \/ \E k \in 1..Len(runs) : OnTimeout(k)
  \/ \E k \in 1..Len(runs) : Validate(k)
  \/ \E k \in 1..Len(runs) : \E c \in DOMAIN runs[k].contexts : PrepareContext(k, c)
  \/ \E k \in 1..Len(runs) : \E c \in DOMAIN runs[k].contexts : LaunchContext(k, c)
  \/ \E k \in 1..Len(runs) : \E c \in DOMAIN runs[k].contexts : SetupContext(k, c)
  \/ \E k \in 1..Len(runs) : InstantiateFails(k)
  \/ \E k \in 1..Len(runs) : InvokeScript(k)
  \/ \E k \in 1..Len(runs) : \E c \in DOMAIN runs[k].contexts : StopTracing(k, c)
  \/ \E k \in 1..Len(runs) : \E c \in DOMAIN runs[k].contexts : CloseContext(k, c)
  \/ \E k \in 1..Len(runs) : HashTree(k)
  \/ \E k \in 1..Len(runs) : WriteIdFile(k)
  \/ \E k \in 1..Len(runs) : Chmod(k)
  \/ \E k \in 1..Len(runs) : Finish(k)

\* the user script settles
ScriptStep == \E k \in 1..Len(runs), outcome \in ScriptOutcomes : ScriptSettles(k, outcome)

\* scriptor is run with docker.js: a single run with or without --timeout, or
\* a chain without --timeout that starts at run 1 without an input directory
\* and has the default pattern
FairInit ==
  /\ Init
  /\ strategy = "counter"
  /\ options.input = NullDirectory
  /\ options.tracing
  /\ DOMAIN options.chain.config \subseteq {"max"}
  /\ options.timeout => ~options.chain.given

FairNext == Scheduled \/ ScriptStep

\* the runs of docker.js under scheduling: a step that can be taken is taken,
\* and a script that runs without --timeout settles (with --timeout it need not)
FairSpec ==
  /\ FairInit /\ [][FairNext]_vars
  /\ WF_vars(Scheduled)
  /\ WF_vars(~options.timeout /\ ScriptStep)

\* scriptor run with docker.js, with wayback processes that can exit by
\* themselves
ProxyNext ==
  \/ Scheduled
  \/ ScriptStep
  \/ \E k \in 1..Len(runs) : \E c \in DOMAIN runs[k].contexts :
       \E p \in Subprocesses, exit \in WaybackExits : ProxyExits(k, c, p, exit)

ProxySpec == FairInit /\ [][ProxyNext]_vars

(***************************************************************************)
(* lib/files.js called as a library: getExisting and readOptions are       *)
(* applied to arguments and disks drawn from bounded sets.                 *)
(***************************************************************************)
ScriptDirectory == PathJoin("", <<"s">>)

\* the base directories of the calls
BaseDirectories ==
  <<ScriptDirectory, InitialInput, PathJoin("", <<"t">>), PathJoin("", <<"u">>)>>

\* the names of the nested properties of the defaults and of the files
NestedNames == <<"v", "w", "x", "y", "z">>

\* the values of an option in the defaults (i = 0) or in the i-th file: a
\* number or an object, both different from those of every other file
OptionValues(i) == {JNum(i), JObject([n \in {NestedNames[i + 1]} |-> JNum(i)])}

\* the objects of the defaults (i = 0) or of the i-th file
OptionObjects(i) == UNION {[keys -> OptionValues(i)] : keys \in SUBSET {"a", "b"}}

\* the path of the i-th options file
OptionsPath(i) == <<BaseDirectories[i], SCRIPT_OPTIONS_FILE_NAME>>

\* the disks with the first n options files
RECURSIVE OptionFiles(_)
OptionFiles(n) ==
  IF n = 0 THEN {[f \in {} |-> EmptyObject]}
  ELSE {[f \in (DOMAIN files) \cup {OptionsPath(n)} |->
           IF f = OptionsPath(n) THEN object ELSE files[f]] :
          files \in OptionFiles(n - 1), object \in OptionObjects(n)}

\* the calls of readOptions: all files of the disk in their order
ReadOptionsCalls ==
  [fn : {"readOptions"}, pc : {"called"}, n : 0..MaxPaths,
   defaults : OptionObjects(0),
   required : {<<>>, <<"a">>, <<"b">>, <<"a", "b">>, <<"b", "a">>, <<"toString">>}]

\* the paths getExisting can be asked for
ExistingCandidates ==
  {<<BaseDirectories[i], name>> : i \in 1..2,
     name \in {BROWSER_CONTEXT_OPTIONS_FILE_NAME, SCRIPT_OPTIONS_FILE_NAME}} \cup
  {Append(getContextDirectory("a", BaseDirectories[i]), BROWSER_CONTEXT_OPTIONS_FILE_NAME) :
     i \in 1..2}

RECURSIVE SequencesUpTo(_, _)
SequencesUpTo(elements, n) ==
  IF n = 0 THEN {<<>>}
  ELSE SequencesUpTo(elements, n - 1) \cup
       {Append(sequence, element) :
          sequence \in {q \in SequencesUpTo(elements, n - 1) : Len(q) = n - 1},
          element \in elements}

(***************************************************************************)
(* lib/scripts.js: instantiateBrowserContext up to the launch, as the      *)
(* options the browser is launched with and the sequence of what is done   *)
(* to the disk and started before.  The size of the video is left out.     *)
(***************************************************************************)
BROWSER_VIEWPORT_DEFAULT ==
  JObject([n \in {"width", "height"} |-> IF n = "width" THEN JNum(1280) ELSE JNum(720)])

BROWSER_CONTEXT_HAR_FILE == "archive.har"

BROWSER_CONTEXT_TRACE_DIRECTORY == "trace"

BROWSER_CONTEXT_VIDEO_DIRECTORY == "video"

BROWSER_CONTEXT_WARC_DIRECTORY == "warcs"

\* the port getUnusedPort gives pywb.start
PywbPort == <<"8", "0", "8", "1">>

\* the string of a path: the name of the base directory and the names joined
PathString(path) == PathBasename(path[1]) \o Tail(path)

prepare4Insecure(browserContextOptions, runOptions) ==
  IF runOptions.insecure
  THEN Put(browserContextOptions, "ignoreHTTPSErrors", JBool(TRUE))
  ELSE browserContextOptions

prepare4Proxy(browserContextOptions, runOptions) ==
  IF runOptions.proxy # JBool(FALSE)
  THEN Put(browserContextOptions, "proxy", JObject([n \in {"server"} |-> runOptions.proxy]))
  ELSE browserContextOptions

\* prepare4ShowBrowser: what it does to the options
headlessFalse(browserContextOptions, runOptions) ==
  IF prepare4ShowBrowser(runOptions)
  THEN Put(browserContextOptions, "headless", JBool(FALSE))
  ELSE browserContextOptions

prepare4Har(browserContextOptions, runOptions, outputContextDirectory) ==
  IF runOptions.har
  THEN Put(browserContextOptions, "recordHar",
           JObject([n \in {"path"} |->
              JStr(PathString(Append(outputContextDirectory, BROWSER_CONTEXT_HAR_FILE)))]))
  ELSE browserContextOptions

prepare4Tracing(browserContextOptions, runOptions, outputContextDirectory) ==
  IF runOptions.tracing
  THEN Put(browserContextOptions, "tracesDir",
           JStr(PathString(Append(outputContextDirectory, BROWSER_CONTEXT_TRACE_DIRECTORY))))
  ELSE browserContextOptions

prepare4Video(browserContextOptions, runOptions, outputContextDirectory) ==
  IF runOptions.video
  THEN Put(browserContextOptions, "recordVideo",
           JObject([n \in {"dir"} |->
              JStr(PathString(Append(outputContextDirectory, BROWSER_CONTEXT_VIDEO_DIRECTORY)))]))
  ELSE browserContextOptions

\* something done to the directory or started in it
Effect(op, directory) ==
  [op |-> op, directory |-> directory, source |-> NullPath, record |-> FALSE,
   proxy |-> JUndefined, port |-> <<>>]

\* preparePywb, lines 633-650: the collection is re-indexed and pywb is
\* started with the proxy of the options as its own proxy
pywbEffects(browserContextOptions, record, pywbDirectory) ==
  LET proxy == Get(browserContextOptions, "proxy")
      server == IF proxy.type = "object" THEN Get(proxy.props, "server") ELSE JUndefined
  IN <<Effect("reIndex", pywbDirectory),
       [Effect("start", pywbDirectory) EXCEPT !.record = record, !.proxy = server,
                                              !.port = PywbPort]>>

\* preparePywb, lines 652-653: what it does to the options
preparePywbKeepProxy(browserContextOptions) ==
  IF "proxy" \in DOMAIN browserContextOptions
  THEN Put(browserContextOptions, "ignoreHTTPSErrors", JBool(TRUE))
  ELSE Put(Put(browserContextOptions, "ignoreHTTPSErrors", JBool(TRUE)), "proxy",
           JObject([n \in {"server"} |-> JStr(<<"http://localhost:">> \o PywbPort)]))

preparePywb(browserContextOptions) ==
  Put(Put(browserContextOptions, "ignoreHTTPSErrors", JBool(TRUE)), "proxy",
      JObject([n \in {"server"} |-> JStr(<<"http://localhost:">> \o PywbPort)]))

\* prepare4Replay, line 597: the base directories a collection is taken from
replaySourceDirectoriesScriptFirst(inputDirectory) == <<ScriptDirectory, inputDirectory>>

replaySourceDirectories(inputDirectory) == <<inputDirectory, ScriptDirectory>>

\* instantiateBrowserContext on the disk files up to the launch: whether it
\* got there, the options written to browser.json of the output, the options
\* of the launch, and what was done in its order
instantiateBrowserContext(files, contextName, inputDirectory, outputDirectory, runOptions) ==
  LET outputContextDirectory == getContextDirectory(contextName, outputDirectory)
      read == readOptions(files,
                getExisting(DOMAIN files, BROWSER_CONTEXT_OPTIONS_FILE_NAME,
                            <<ScriptDirectory, inputDirectory>>, contextName),
                [n \in {"viewport"} |-> BROWSER_VIEWPORT_DEFAULT], <<>>)
      prepared ==
        prepare4Video(
          prepare4Tracing(
            prepare4Har(
              headlessFalse(
                prepare4Proxy(prepare4Insecure(read.value, runOptions), runOptions),
                runOptions),
              runOptions, outputContextDirectory),
            runOptions, outputContextDirectory),
          runOptions, outputContextDirectory)
      showBrowser == IF prepare4ShowBrowser(runOptions)
                     THEN <<Effect("showBrowser", outputDirectory)>> ELSE <<>>
      pywbDirectory == Append(outputContextDirectory, BROWSER_CONTEXT_WARC_DIRECTORY)
      sourcePywb == getExisting(DOMAIN files, BROWSER_CONTEXT_WARC_DIRECTORY,
                                replaySourceDirectories(inputDirectory), contextName)
      replay == runOptions.replay # "not"
      warc == IF prepare4Warc(runOptions)
              THEN <<Effect("initialize", pywbDirectory)>> \o
                   pywbEffects(prepared, TRUE, pywbDirectory)
              ELSE <<>>
      copy == IF replay /\ sourcePywb # <<>>
              THEN <<[Effect("copy", pywbDirectory) EXCEPT !.source = sourcePywb[1]]>> \o
                   pywbEffects(prepared, runOptions.replay = "rw", pywbDirectory)
              ELSE <<>>
      launch == IF prepare4Warc(runOptions) \/ replay THEN preparePywb(prepared)
                ELSE prepared
  IN IF ~read.ok
     THEN [ok |-> FALSE, written |-> EmptyObject, launch |-> EmptyObject, effects |-> <<>>]
     ELSE IF replay /\ sourcePywb = <<>>
     THEN [ok |-> FALSE, written |-> read.value, launch |-> EmptyObject,
           effects |-> showBrowser]
     ELSE [ok |-> TRUE, written |-> read.value, launch |-> launch,
           effects |-> showBrowser \o warc \o copy \o
                       <<Effect("launch", outputContextDirectory)>>]

\* browser.json and the warcs directory of context a in a base directory
BrowserOptionsPath(baseDirectory) ==
  Append(getContextDirectory("a", baseDirectory), BROWSER_CONTEXT_OPTIONS_FILE_NAME)

WarcsPath(baseDirectory) ==
  Append(getContextDirectory("a", baseDirectory), BROWSER_CONTEXT_WARC_DIRECTORY)

\* the settings of the browser.json of the script (i = 1) or of the input
\* directory (i = 2): all that a run option speaks of, with values of the file
FileSettings(i, flag) ==
  LET name == JStr(<<"f", DigitChars[i + 1]>>)
  IN [k \in {"ignoreHTTPSErrors", "headless", "proxy", "recordHar", "tracesDir",
              "recordVideo"} |->
        CASE k \in {"ignoreHTTPSErrors", "headless"} -> JBool(flag)
          [] k = "proxy" -> JObject([n \in {"server"} |-> name])
          [] k = "recordHar" -> JObject([n \in {"path"} |-> name])
          [] k = "tracesDir" -> name
          [] k = "recordVideo" -> JObject([n \in {"dir"} |-> name])]

BrowserFiles(i) ==
  {EmptyObject, FileSettings(i, TRUE), FileSettings(i, FALSE),
   [k \in {"recordHar"} |-> FileSettings(i, TRUE)[k]]}

\* the disks with no file or one of contents at path
FilesAt(path, contents) ==
  {[f \in {} |-> EmptyObject]} \cup {[f \in {path} |-> c] : c \in contents}

\* the disks of a call with the input directory
InstantiateDisks(inputDirectory) ==
  {Assign(Assign(Assign(scriptFile, inputFile), scriptWarcs), inputWarcs) :
     scriptFile \in FilesAt(BrowserOptionsPath(ScriptDirectory), BrowserFiles(1)),
     inputFile \in IF inputDirectory = NullDirectory THEN {[f \in {} |-> EmptyObject]}
                   ELSE FilesAt(BrowserOptionsPath(InitialInput), BrowserFiles(2)),
     scriptWarcs \in FilesAt(WarcsPath(ScriptDirectory), {EmptyObject}),
     inputWarcs \in IF inputDirectory = NullDirectory THEN {[f \in {} |-> EmptyObject]}
                    ELSE FilesAt(WarcsPath(InitialInput), {EmptyObject})}

\* the calls of instantiateBrowserContext for context a
InstantiateCalls ==
  [fn : {"instantiateBrowserContext"}, pc : {"called"},
   inputDirectory : {NullDirectory, InitialInput},
   runOptions : [insecure : BOOLEAN, proxy : {JBool(FALSE), JStr(<<"c">>)},
                 showBrowser : BOOLEAN, har : BOOLEAN, tracing : BOOLEAN,
                 video : BOOLEAN, warc : BOOLEAN, replay : {"not", "r", "rw"}]]

\* the calls of getExisting
GetExistingCalls ==
  [fn : {"getExisting"}, pc : {"called"},
   fileName : {BROWSER_CONTEXT_OPTIONS_FILE_NAME},
   baseDirectories : SequencesUpTo({NullDirectory, ScriptDirectory, InitialInput},
                                   MaxDirectories),
   contextName : {NullName, "a"}]

LibraryInit ==
  /\ call \in ReadOptionsCalls \cup GetExistingCalls \cup InstantiateCalls
  /\ jsonFiles \in IF call.fn = "readOptions"
                   THEN OptionFiles(call.n)
                   ELSE IF call.fn = "getExisting"
                   THEN {[f \in existing |-> EmptyObject] :
                           existing \in SUBSET ExistingCandidates}
                   ELSE InstantiateDisks(call.inputDirectory)
  /\ strategy = "library"
  /\ options = EmptyObject
  /\ faults = {}
  /\ trees = <<>>
  /\ driver = [pc |-> "library"]
  /\ chainable = FALSE
  /\ runs = <<>>

\* files.readOptions(paths, defaults, required) returns or throws
ReadOptions ==
  /\ call.fn = "readOptions"
  /\ call.pc = "called"
  /\ call' = [fn |-> "readOptions", pc |-> "returned", n |-> call.n,
              defaults |-> call.defaults, required |-> call.required,
              result |-> readOptions(jsonFiles, [i \in 1..call.n |-> OptionsPath(i)],
                                     call.defaults, call.required)]
  /\ UNCHANGED <<jsonFiles, strategy, options, faults, trees, driver, chainable, runs>>

\* files.getExisting(fileName, baseDirectories, contextName) returns
GetExisting ==
  /\ call.fn = "getExisting"
  /\ call.pc = "called"
  /\ call' = [fn |-> "getExisting", pc |-> "returned", fileName |-> call.fileName,
              baseDirectories |-> call.baseDirectories,
              contextName |-> call.contextName,
              result |-> getExisting(DOMAIN jsonFiles, call.fileName,
                                     call.baseDirectories, call.contextName)]
  /\ UNCHANGED <<jsonFiles, strategy, options, faults, trees, driver, chainable, runs>>

\* instantiateBrowserContext launches the browser of context a or throws
InstantiateBrowserContext ==
  /\ call.fn = "instantiateBrowserContext"
  /\ call.pc = "called"
  /\ call' = [fn |-> "instantiateBrowserContext", pc |-> "returned",
              inputDirectory |-> call.inputDirectory, runOptions |-> call.runOptions,
              result |-> instantiateBrowserContext(jsonFiles, "a", call.inputDirectory,
                                                   SingleOutputDirectory, call.runOptions)]
  /\ UNCHANGED <<jsonFiles, strategy, options, faults, trees, driver, chainable, runs>>

LibraryNext ==
  \/ ReadOptions
  \/ GetExisting
  \/ InstantiateBrowserContext

LibrarySpec == LibraryInit /\ [][LibraryNext]_vars

(***************************************************************************)
(* Properties.                                                             *)
(***************************************************************************)
RunIds == 1..Len(runs)

\* the script of run k returned a result that is not chainable
NonChainable(k) == runs[k].scriptOutcome \in {"false", "truthy", "reject"}

\* run k went through finalization and returned
Completed(k) == runs[k].process = "ended" /\ runs[k].exit = "ok"

\* the chain configuration file of the persisted-state strategy
ChainFile == PathJoin(OutputDirectory, ChainName \o JsonSuffix)

\* the index the file stands for: its nextIndex, 1 when there is none
FileIndex(files) ==
  IF ChainFile \in DOMAIN files /\ "nextIndex" \in DOMAIN files[ChainFile]
  THEN files[ChainFile]["nextIndex"].num
  ELSE 1

\* the directory name chain.js gives to the run of index n of the chain "run"
ChainDirectoryName(n) ==
  <<"r", "u", "n", "-">> \o Repeat("0", NUM_DIGITS_DEFAULT - Len(NumberToString(n)))
    \o NumberToString(n)

\* C1: in a chain driven by docker.run a run is started only after the process
\* of the run before it has exited, the first run gets the caller's input
\* directory and every later run gets the output directory of the run before it
C1_RunsSequentialAndThreaded ==
  strategy = "counter" =>
    /\ \A k \in RunIds : k < Len(runs) => runs[k].process = "ended" /\ runs[k].exitSeen
    /\ runs # <<>> => runs[1].inputDirectory = options.input
    /\ \A k \in RunIds : k > 1 => runs[k].inputDirectory = runs[k - 1].outputDirectory

C1_Witness ==
  /\ strategy = "counter"
  /\ options.input = InitialInput
  /\ Len(runs) = 3
  /\ runs[3].phase = "executing-script"

\* C2: with chain max = m, no timeout and a script that returns true on every
\* run, the chain that has stopped made exactly m run directories, and under
\* the persisted-state strategy the file then holds nextIndex = m + 1
C2_MaxRunsAllMade ==
  LET max == Get(options.chain.config, "max")
  IN (/\ options.chain.given
      /\ max.type = "number"
      /\ max.num >= 0
      /\ ~options.timeout
      /\ driver.pc \in {"complete", "maxRunsReached", "crashed", "failed"}
      /\ driver.restarts = 0
      /\ faults = {}
      /\ \A k \in RunIds : runs[k].scriptOutcome = "true")
     => /\ Len(runs) = max.num
        /\ strategy = "persisted" => FileIndex(jsonFiles) = max.num + 1

\* C3: after the script returned a non-chainable result on run k the driver of
\* the chain starts no further run (k directories exist), and the exit of that
\* run ends the chain as complete
C3_NonChainableStops ==
  /\ [](strategy = "counter" => \A k \in RunIds : NonChainable(k) => Len(runs) = k)
  /\ [][\A k \in RunIds :
          (/\ strategy = "counter"
           /\ options.chain.given
           /\ NonChainable(k)
           /\ ~runs[k].exitSeen
           /\ runs'[k].exitSeen) => driver'.pc = "complete"]_vars

C3_Witness ==
  /\ strategy = "counter"
  /\ Len(runs) = 2
  /\ runs[2].scriptOutcome = "false"
  /\ runs[2].exitSeen
  /\ driver.pc = "complete"

PhaseSteps ==
  {<<"validating", "preparing-sessions">>,
   <<"preparing-sessions", "executing-script">>,
   <<"executing-script", "tearing-down">>,
   <<"tearing-down", "hashing">>,
   <<"hashing", "locked">>}

\* C5: the phase of a run changes only along validating, preparing-sessions,
\* executing-script, tearing-down, hashing, locked; the script runs only with
\* every context set up; tracing is stopped and every context is closed when
\* the tree is hashed; the hash is in the id file when the tree is locked; a
\* run that returns is locked, whatever chainable is
C5_PhasesInOrder ==
  /\ [][\A k \in RunIds :
          runs'[k].phase # runs[k].phase
          => <<runs[k].phase, runs'[k].phase>> \in PhaseSteps]_vars
  /\ [](\A k \in RunIds :
          /\ runs[k].phase \notin {"validating", "preparing-sessions"} =>
               DOMAIN runs[k].contexts # {}
          /\ runs[k].phase = "executing-script" =>
               \A c \in DOMAIN runs[k].contexts : runs[k].contexts[c] = "open"
          /\ runs[k].phase \in {"hashing", "locked"} =>
               /\ \A c \in DOMAIN runs[k].contexts : runs[k].contexts[c] = "closed"
               /\ \A c \in DOMAIN runs[k].contexts : runs[k].tracing[c] # "on"
               /\ runs[k].hash # NoHash
          /\ (/\ Exists(runs[k].outputDirectory)
              /\ trees[runs[k].outputDirectory].locked) =>
               \* a run on the directory locked it
               \E j \in RunIds :
                 /\ runs[j].outputDirectory = runs[k].outputDirectory
                 /\ runs[j].phase = "locked"
                 /\ trees[runs[j].outputDirectory].id = runs[j].hash
          /\ Completed(k) => runs[k].phase = "locked")

C5_Witness ==
  /\ Len(runs) = 2
  /\ Completed(1) /\ runs[1].runChainable
  /\ Completed(2) /\ ~runs[2].runChainable
  /\ options.tracing

\* C6: once the tree of a run is locked, no file in it is changed or added
C6_LockedTreeNeverWritten ==
  [][\A d \in DOMAIN trees : trees[d].locked => trees'[d] = trees[d]]_vars

\* C7: hashing the tree of a finalized run again gives the hash in its id file
C7_RehashGivesStoredHash ==
  \A k \in RunIds :
    runs[k].phase = "locked" =>
      HashElement(trees[runs[k].outputDirectory]) = trees[runs[k].outputDirectory].id

RECURSIVE CompletedUpTo(_)
CompletedUpTo(k) ==
  IF k = 0 THEN 0 ELSE CompletedUpTo(k - 1) + (IF Completed(k) THEN 1 ELSE 0)

\* C9 as stated: after n completed runs from no state file the file holds
\* nextIndex = n + 1 and previous = the directory name of run n, which after 3
\* runs is {nextIndex: 4, previous: "run000003"}
C9_AsStated ==
  (strategy = "persisted" /\ faults = {} /\ Len(runs) = 3 /\ Completed(3))
  => jsonFiles[ChainFile] =
       [k \in {"nextIndex", "previous"} |->
          IF k = "nextIndex" THEN JNum(4)
          ELSE JStr(<<"r", "u", "n", "0", "0", "0", "0", "0", "3">>)]

\* C9 amended: after n completed runs from no state file the file holds
\* nextIndex = n + 1 and previous = the directory name of run n, which after 3
\* runs of the chain "run" is {nextIndex: 4, previous: "run-000000003"}
C9_StateAfterRuns ==
  (strategy = "persisted" /\ faults = {}) =>
    LET n == CompletedUpTo(Len(runs))
    IN /\ FileIndex(jsonFiles) = n + 1
       /\ n >= 1 =>
            /\ Completed(n)
            /\ DOMAIN jsonFiles[ChainFile] = {"nextIndex", "previous"}
            /\ jsonFiles[ChainFile]["nextIndex"] = JNum(n + 1)
            /\ jsonFiles[ChainFile]["previous"] =
                 JStr(PathBasename(runs[n].outputDirectory))
       /\ n = 3 =>
            jsonFiles[ChainFile]["previous"] =
              JStr(<<"r", "u", "n", "-", "0", "0", "0", "0", "0", "0", "0", "0", "3">>)

C9_Witness ==
  /\ strategy = "persisted"
  /\ faults = {}
  /\ CompletedUpTo(Len(runs)) = 3
  /\ \A k \in RunIds : runs[k].scriptOutcome = "true"

\* C10: every run of the persisted-state strategy is started from the file as
\* it is then, also after a restart of the driver: its output directory has the
\* index nextIndex of the file, its input directory is the directory the file
\* names as previous, and without a file (no run was completed before) it is
\* run 1 without an input directory
C10_RunStartsFromFile ==
  strategy = "persisted" =>
    \A k \in RunIds :
      runs[k].process = "running" =>
        /\ runs[k].outputDirectory =
             PathJoin(OutputDirectory, ChainDirectoryName(FileIndex(jsonFiles)))
        /\ runs[k].inputDirectory =
             IF ChainFile \in DOMAIN jsonFiles /\ "previous" \in DOMAIN jsonFiles[ChainFile]
             THEN PathJoin(OutputDirectory, jsonFiles[ChainFile]["previous"].str)
             ELSE NullDirectory
        /\ ChainFile \notin DOMAIN jsonFiles =>
             /\ \A j \in 1..(k - 1) : ~Completed(j)
             /\ runs[k].outputDirectory = PathJoin(OutputDirectory, ChainDirectoryName(1))
             /\ runs[k].inputDirectory = NullDirectory

C10_Witness ==
  /\ strategy = "persisted"
  /\ driver.restarts = 1
  /\ Len(runs) = 2
  /\ runs[2].process = "running"
  /\ runs[2].inputDirectory = PathJoin(OutputDirectory, ChainDirectoryName(1))
  /\ runs[2].outputDirectory = PathJoin(OutputDirectory, ChainDirectoryName(2))

\* C11: the chain configuration file is advanced only by a run whose tree is
\* hashed and locked, and whenever the file changes while a driver runs it goes
\* in one step to {nextIndex: n + 1, previous: the directory name of that run},
\* also when the process is killed during the update
C11_AdvancedAtomically ==
  [][(jsonFiles' # jsonFiles /\ driver'.restarts = driver.restarts) =>
       \E k \in RunIds :
         /\ runs[k].process = "running"
         /\ runs'[k].process = "ended"
         /\ runs[k].phase = "locked"
         /\ trees[runs[k].outputDirectory].locked
         /\ trees[runs[k].outputDirectory].id = runs[k].hash
         /\ jsonFiles'[ChainFile] =
              [f \in {"nextIndex", "previous"} |->
                 IF f = "nextIndex" THEN JNum(FileIndex(jsonFiles) + 1)
                 ELSE JStr(PathBasename(runs[k].outputDirectory))]]_vars

\* the nextIndex of the file is not a positive integer, or it is the index of
\* a completed run of the output directory or lies below one
CorruptIndex ==
  /\ ChainFile \in DOMAIN jsonFiles
  /\ jsonFiles[ChainFile] # EmptyFile
  /\ LET nextIndex == Get(jsonFiles[ChainFile], "nextIndex")
     IN /\ nextIndex.type # "undefined"
        /\ \/ nextIndex.type # "number"
           \/ ~nextIndex.isInteger
           \/ nextIndex.num < 1
           \/ \E k \in RunIds, n \in 1..(MaxRuns + 1) :
                /\ Completed(k)
                /\ n >= nextIndex.num
                /\ runs[k].outputDirectory =
                     PathJoin(OutputDirectory, ChainDirectoryName(n))

\* C20: an invocation of the driver that finds a nextIndex that is not a
\* positive integer or has regressed fails: it starts no run, derives no run
\* directory and leaves the file as it is
C20_CorruptIndexIsFatal ==
  [][(strategy = "persisted" /\ driver.pc = "start" /\ driver'.pc # "start"
      /\ CorruptIndex)
     => /\ driver'.pc = "failed"
        /\ runs' = runs
        /\ jsonFiles' = jsonFiles]_vars

\* C18: the timeout of a run that fires ends the process of the run, and after
\* a run was killed by its timeout the driver starts no further run
C18_TimeoutStopsChain ==
  /\ [][\A k \in RunIds :
          (runs[k].timer = "armed" /\ runs'[k].timer = "fired")
          => runs'[k].process = "ended"]_vars
  /\ [](strategy = "counter" =>
          \A k \in RunIds : runs[k].exit = "killed" => Len(runs) = k)

\* C19: a chain that ended with the outcome of the clean stop (complete) was
\* not stopped by the timeout of a run or by an error of a run
C19_FailureDiffersFromCleanStop ==
  (strategy = "counter" /\ driver.pc = "complete") =>
    /\ runs # <<>>
    /\ runs[Current].exit \notin {"killed", "error"}

\* the call of instantiateBrowserContexts of run k failed
InstantiateFailed(k) ==
  /\ runs[k].phase = "preparing-sessions"
  /\ runs[k].process = "ended"
  /\ runs[k].exit = "error"

\* C12: when the setup of one of several contexts fails the call of
\* instantiateBrowserContexts fails, and after it failed no browser context is
\* left launched and no subprocess of any context is left running
C12_FailedSetupLeavesNothing ==
  /\ [][\A k \in RunIds :
          (\E c \in DOMAIN runs[k].contexts : runs[k].contexts[c] = "failed")
          => runs'[k].phase # "executing-script"]_vars
  /\ [](\A k \in RunIds :
          (InstantiateFailed(k) /\ Cardinality(DOMAIN runs[k].contexts) > 1) =>
            \A c \in DOMAIN runs[k].contexts :
              /\ runs[k].contexts[c] \notin {"launched", "open"}
              /\ \A p \in Subprocesses : runs[k].processes[c][p] # "running")

\* the close listeners the setup of context c of run k has to register
ListenersDue(k, c) ==
  (IF options.session.showBrowser THEN {"showBrowser"} ELSE {}) \cup
  (IF runs[k].processes[c]["warc"] # "none" THEN {"warc"} ELSE {}) \cup
  (IF runs[k].processes[c]["replay"] # "none" THEN {"replay"} ELSE {})

\* C13: script.run is called only when every context of the run is launched,
\* has its tracing started and its close listeners registered, and while the
\* script runs no context of the run is missing or half set up
C13_ScriptAfterAllContexts ==
  /\ [][\A k \in RunIds :
          (runs[k].phase = "preparing-sessions" /\ runs'[k].phase = "executing-script")
          => /\ DOMAIN runs[k].contexts # {}
             /\ \A c \in DOMAIN runs[k].contexts :
                  /\ runs[k].contexts[c] = "open"
                  /\ options.tracing => runs[k].tracing[c] = "on"
                  /\ runs[k].onClose[c] = ListenersDue(k, c)]_vars
  /\ [](\A k \in RunIds :
          runs[k].phase = "executing-script" =>
            \A c \in ContextNames(ContextListings(runs[k].inputDirectory)) :
              c \in DOMAIN runs[k].contexts /\ runs[k].contexts[c] = "open")

C13_Witness ==
  \E k \in RunIds :
    /\ runs[k].phase = "executing-script"
    /\ DOMAIN runs[k].contexts = {"a", "b"}
    /\ options.session.showBrowser
    /\ options.tracing

\* the names of the directories in the browserContexts directory of the
\* script directory and of the input directory of run k
NamesDeclared(k) ==
  {e.name : e \in {x \in options.session.scriptContexts : x.isDirectory}} \cup
  (IF runs[k].inputDirectory = NullDirectory THEN {}
   ELSE trees[runs[k].inputDirectory].contexts)

\* C14: the contexts of a run are those of the union of the directory names
\* in the browserContexts directories of the script and input directories, or
\* the one context "default" when the union is empty
C14_OneSessionPerName ==
  \A k \in RunIds :
    runs[k].phase # "validating" =>
      DOMAIN runs[k].contexts =
        IF NamesDeclared(k) = {} THEN {"default"} ELSE NamesDeclared(k)

C14_Witness ==
  /\ \E k \in RunIds :
       /\ runs[k].phase = "executing-script"
       /\ options.session.scriptContexts = {Directory("a"), File("f")}
       /\ options.session.inputContexts = {"b"}
       /\ DOMAIN runs[k].contexts = {"a", "b"}

\* C15: a subprocess of a context is terminated only in the step that closes
\* the context and is not terminated again, and when the run has returned or
\* failed no subprocess that was started for a context is left running
C15_SubprocessTerminatedOnce ==
  /\ [][\A k \in RunIds : \A c \in DOMAIN runs[k].contexts : \A p \in Subprocesses :
          /\ (runs[k].processes[c][p] = "running"
               /\ runs'[k].processes[c][p] = "terminated")
              => (runs[k].contexts[c] # "closed" /\ runs'[k].contexts[c] = "closed")
          /\ runs[k].processes[c][p] = "terminated"
              => runs'[k].processes[c][p] = "terminated"]_vars
  /\ [](\A k \in RunIds :
          (runs[k].process = "ended" /\ runs[k].exit \in {"ok", "error"}) =>
            \A c \in DOMAIN runs[k].contexts : \A p \in Subprocesses :
              runs[k].processes[c][p] # "running")

\* C16: with --show-browser, after a context is closed none of xvfb, x11vnc
\* and lwm that were started for it is running
C16_DisplayTornDownTogether ==
  \A k \in RunIds : \A c \in DOMAIN runs[k].contexts :
    (options.session.showBrowser /\ runs[k].contexts[c] = "closed") =>
      \A p \in {"xvfb", "vnc", "lwm"} : runs[k].processes[c][p] # "running"

\* C17: with --warc and --replay a context that is set up has no recording
\* pywb and no freshly initialized collection, and until it is closed its one
\* pywb process is the replaying one
C17_ReplayWins ==
  \A k \in RunIds : \A c \in DOMAIN runs[k].contexts :
    (/\ options.session.warc
     /\ options.session.replay # "not"
     /\ runs[k].contexts[c] \notin {"new", "failed"}) =>
      /\ runs[k].processes[c]["warc"] = "none"
      /\ runs[k].collection[c] = "copied"
      /\ "warc" \notin runs[k].onClose[c]
      /\ runs[k].processes[c]["replay"] =
           IF runs[k].contexts[c] = "closed" THEN "terminated" ELSE "running"

C17_Witness ==
  \E k \in RunIds :
    /\ options.session.warc
    /\ options.session.replay = "rw"
    /\ runs[k].phase = "executing-script"
    /\ DOMAIN runs[k].contexts = {"a", "b"}

\* the options hold one of the configuration errors: a script or input
\* directory that is missing or no directory, an output path that is a file,
\* a chain pattern without %0<digits>d, an invalid --replay or --unrandomize
ConfigurationError ==
  \/ options.entries.script # "directory"
  \/ options.input # NullDirectory /\ options.entries.input # "directory"
  \/ options.entries.output = "file"
  \/ options.entries.output = "used" /\ ~options.chain.given
  \/ /\ options.chain.given
     /\ Get(options.chain.config, "pattern").type = "string"
     /\ MatchAll(Get(options.chain.config, "pattern").str, 1) = <<>>
  \/ options.session.replay = "x"
  \/ options.unrandomize = "x"

\* a browser was launched or a subprocess was started for context c of run k
SessionOrProxy(k, c) ==
  \/ runs[k].contexts[c] \in {"launched", "open", "traceStopped", "closed"}
  \/ \E p \in Subprocesses : runs[k].processes[c][p] # "none"

\* C21: with a configuration error no browser session and no archival proxy
\* is ever created, and the error is fatal: no run gets beyond the checks of
\* the directories, none completes, and the driver ends with the error or
\* with a failed run
C21_ConfigurationErrorBeforeSessions ==
  ConfigurationError =>
    /\ \A k \in RunIds : \A c \in DOMAIN runs[k].contexts : ~SessionOrProxy(k, c)
    /\ \A k \in RunIds : runs[k].phase = "validating" /\ ~Completed(k)
    /\ driver.pc \in {"start", "loop", "await", "threw", "returnedFalse",
                      "complete", "failed"}

\* the script directory is a file and scripts.run rejected for it
C21_Witness ==
  /\ options.entries.script = "file"
  /\ \E k \in RunIds : runs[k].exit = "error" /\ runs[k].phase = "validating"

\* the files of the call of readOptions that define the option key
DefinedBy(key) == {i \in 1..call.n : key \in DOMAIN jsonFiles[OptionsPath(i)]}

\* the option key is defined by the defaults or by a file of the call
Defined(key) == key \in DOMAIN call.defaults \/ DefinedBy(key) # {}

\* C22: when every required name is defined by the defaults or by a file,
\* readOptions does not throw, and its result has exactly the defined keys,
\* each with the whole value of the last file that defines it, else with the
\* default
C22_LastFileWinsWholesale ==
  (/\ call.fn = "readOptions"
   /\ call.pc = "returned"
   /\ \A r \in 1..Len(call.required) : Defined(call.required[r])) =>
    /\ call.result.ok
    /\ DOMAIN call.result.value = {key \in {"a", "b", "toString"} : Defined(key)}
    /\ \A key \in DOMAIN call.result.value :
         call.result.value[key] =
           IF DefinedBy(key) = {} THEN call.defaults[key]
           ELSE LET last == CHOOSE i \in DefinedBy(key) : \A j \in DefinedBy(key) : j <= i
                IN jsonFiles[OptionsPath(last)][key]

\* a required option is an object in the defaults and in two files
C22_Witness ==
  /\ call.fn = "readOptions"
  /\ call.pc = "returned"
  /\ call.required = <<"a", "b">>
  /\ call.result.ok
  /\ "a" \in DOMAIN call.defaults /\ call.defaults["a"].type = "object"
  /\ \A i \in 1..2 : i \in DefinedBy("a") /\ jsonFiles[OptionsPath(i)]["a"].type = "object"

\* C23: whenever a required key is defined neither by the defaults nor by a
\* file, readOptions throws an error that names such a key, and an object it
\* returns has every required key
C23_MissingRequiredThrows ==
  (call.fn = "readOptions" /\ call.pc = "returned") =>
    /\ (\E r \in 1..Len(call.required) : ~Defined(call.required[r])) =>
         /\ ~call.result.ok
         /\ \E r \in 1..Len(call.required) :
              ~Defined(call.required[r]) /\ call.result.value = call.required[r]
    /\ call.result.ok =>
         \A r \in 1..Len(call.required) : call.required[r] \in DOMAIN call.result.value

\* the path getExisting looks at for the i-th base directory of the call
Candidate(i) ==
  IF call.contextName = NullName
  THEN <<call.baseDirectories[i], call.fileName>>
  ELSE <<call.baseDirectories[i], BROWSER_CONTEXTS_DIRECTORY, call.contextName,
         call.fileName>>

\* the base directories of the call that are not null and contain the file
Containing ==
  {i \in 1..Len(call.baseDirectories) :
     call.baseDirectories[i] # NullDirectory /\ Candidate(i) \in DOMAIN jsonFiles}

\* C24: getExisting returns the paths of the file in exactly the base
\* directories that are not null and contain it, in the order of the base
\* directories; every path it returns exists
C24_ExistingInOrder ==
  (call.fn = "getExisting" /\ call.pc = "returned") =>
    /\ Len(call.result) = Cardinality(Containing)
    /\ \A j \in 1..Len(call.result) :
         /\ call.result[j] \in DOMAIN jsonFiles
         /\ \E i \in Containing :
              /\ Cardinality({h \in Containing : h < i}) = j - 1
              /\ call.result[j] = Candidate(i)

\* of three base directories one is null, one lacks the file, one has it
C24_Witness ==
  /\ call.fn = "getExisting"
  /\ call.pc = "returned"
  /\ Len(call.baseDirectories) = 3
  /\ call.baseDirectories[1] = NullDirectory
  /\ call.baseDirectories[2] # NullDirectory
  /\ Containing = {3}
  /\ call.result = <<Candidate(3)>>

\* the decimal digits of n < 100, with zeroes in front up to width digits
ZeroPadded(n, width) ==
  LET digits == IF n < 10 THEN <<DigitChars[n + 1]>>
                ELSE <<DigitChars[(n \div 10) + 1], DigitChars[(n % 10) + 1]>>
      zeroes == width - Len(digits)
  IN [i \in 1..Max(width, Len(digits)) |->
        IF i <= zeroes THEN "0" ELSE digits[i - Max(zeroes, 0)]]

\* the name of the directory of run number n for the patterns followed:
\* "run%06d" (the default) and "r%02d-%01d"
RunDirectoryName(n) ==
  IF "pattern" \in DOMAIN options.chain.config
  THEN <<"r">> \o ZeroPadded(n, 2) \o <<"-">> \o ZeroPadded(n, 1)
  ELSE <<"r", "u", "n">> \o ZeroPadded(n, 6)

\* C25: the N-th run of a chain of the counter-in-filename strategy writes to
\* the directory named by the pattern with every placeholder replaced by the
\* number start+N-1, with zeroes in front up to the width of the placeholder
C25_RunDirectoryFromPattern ==
  (strategy = "counter" /\ options.chain.given) =>
    \A k \in RunIds :
      runs[k].outputDirectory =
        PathJoin(OutputDirectory,
                 RunDirectoryName((IF "start" \in DOMAIN options.chain.config
                                   THEN options.chain.config["start"].num ELSE 1) + k - 1))

\* with start = 2 the second run writes to run000003
C25_Witness ==
  /\ strategy = "counter"
  /\ options.chain.given
  /\ Get(options.chain.config, "start") = JNum(2)
  /\ Len(runs) = 2
  /\ runs[1].outputDirectory = PathJoin(OutputDirectory, <<"r", "u", "n", "0", "0", "0", "0", "0", "2">>)
  /\ runs[2].outputDirectory = PathJoin(OutputDirectory, <<"r", "u", "n", "0", "0", "0", "0", "0", "3">>)

\* C26 as stated: the chainable signal of a run is the return value of the
\* script coerced to boolean, true for every truthy value
C26_AsStated ==
  \A k \in RunIds :
    /\ runs[k].scriptOutcome \in {"true", "truthy"} => runs[k].runChainable
    /\ runs[k].scriptOutcome = "false" => ~runs[k].runChainable

\* C26: the chainable signal of a run is true exactly when the script
\* returned the value true; every other return value and a rejection give
\* false, in the cleanup line of the log and in the value the run returns
C26_ChainableIffTrue ==
  \A k \in RunIds :
    runs[k].scriptOutcome # "none" =>
      /\ runs[k].runChainable = (runs[k].scriptOutcome = "true")
      /\ (strategy = "persisted" /\ Completed(k)) =>
           runs[k].result = IF runs[k].scriptOutcome = "true" THEN "true" ELSE "false"
      /\ \A i \in 1..Len(runs[k].pipe) :
           runs[k].pipe[i].msg = "scripts.run.cleanup" =>
             runs[k].pipe[i].chainable = (runs[k].scriptOutcome = "true")

\* a script returned a truthy value other than true and the run returned false
C26_Witness ==
  \E k \in RunIds :
    /\ strategy = "persisted"
    /\ runs[k].scriptOutcome = "truthy"
    /\ Completed(k)
    /\ runs[k].result = "false"

\* instantiateBrowserContext returned with the browser of context a launched
Launched ==
  call.fn = "instantiateBrowserContext" /\ call.pc = "returned" /\ call.result.ok

\* the directory of context a in the output directory, and a path in it
OutputContextDirectory == <<SingleOutputDirectory, BROWSER_CONTEXTS_DIRECTORY, "a">>

OutputString(name) == JStr(PathString(Append(OutputContextDirectory, name)))

\* what was done for pywb and the browser, in its order
ProxyEffects == SelectSeq(call.result.effects, LAMBDA effect : effect.op # "showBrowser")

\* pywb was started for the context
ProxyStarted == \E i \in 1..Len(call.result.effects) : call.result.effects[i].op = "start"

\* C27: the browser is launched as the run options of the command line say
\* for the HTTPS errors, the proxy (if no pywb is started), the head, the HAR,
\* the traces directory and the video, whatever the browser.json files say:
\* what an option switches on is set, what --no-har and --no-tracing switch
\* off is not set
C27_RunOptionsWin ==
  Launched =>
    LET launch == call.result.launch
        runOptions == call.runOptions
    IN /\ runOptions.insecure => Get(launch, "ignoreHTTPSErrors") = JBool(TRUE)
       /\ (runOptions.proxy # JBool(FALSE) /\ ~ProxyStarted) =>
            Get(launch, "proxy") = JObject([n \in {"server"} |-> runOptions.proxy])
       /\ runOptions.showBrowser => Get(launch, "headless") = JBool(FALSE)
       /\ Get(launch, "recordHar") =
            IF runOptions.har
            THEN JObject([n \in {"path"} |-> OutputString(BROWSER_CONTEXT_HAR_FILE)])
            ELSE JUndefined
       /\ Get(launch, "tracesDir") =
            IF runOptions.tracing THEN OutputString(BROWSER_CONTEXT_TRACE_DIRECTORY)
            ELSE JUndefined
       /\ runOptions.video =>
            Get(launch, "recordVideo") =
              JObject([n \in {"dir"} |-> OutputString(BROWSER_CONTEXT_VIDEO_DIRECTORY)])

\* C28: whenever pywb is started for a context, recording or replaying, the
\* browser is launched with the proxy http://localhost:<port of that pywb>
\* and with the HTTPS errors ignored, whatever --insecure, --proxy and the
\* browser.json files say; and pywb is started whenever WARCs are recorded
\* or replayed
C28_BrowserUsesLocalProxy ==
  Launched =>
    /\ ProxyStarted <=> (call.runOptions.warc \/ call.runOptions.replay # "not")
    /\ \A i \in 1..Len(call.result.effects) :
         call.result.effects[i].op = "start" =>
           /\ Get(call.result.launch, "proxy") =
                JObject([n \in {"server"} |->
                           JStr(<<"http://localhost:">> \o call.result.effects[i].port)])
           /\ Get(call.result.launch, "ignoreHTTPSErrors") = JBool(TRUE)

\* pywb records without --insecure, with --proxy, and the file of the input
\* directory sets a proxy and does not ignore the HTTPS errors
C28_Witness ==
  /\ Launched
  /\ ProxyStarted
  /\ ~call.runOptions.insecure
  /\ call.runOptions.proxy # JBool(FALSE)
  /\ call.runOptions.replay = "not"
  /\ call.inputDirectory = InitialInput
  /\ BrowserOptionsPath(InitialInput) \in DOMAIN jsonFiles
  /\ jsonFiles[BrowserOptionsPath(InitialInput)] = FileSettings(2, FALSE)

\* C30: with --replay the collection of the input directory, else that of
\* the script directory, is copied to the warcs directory of the context in
\* the output, then the copy is re-indexed, then pywb is started in the copy,
\* recording exactly for rw, and then the browser is launched; without a
\* collection to copy the context fails and nothing of this is done
C30_ReplayFromCopy ==
  (call.fn = "instantiateBrowserContext" /\ call.pc = "returned"
   /\ call.runOptions.replay # "not") =>
    LET fromInput == /\ call.inputDirectory # NullDirectory
                     /\ WarcsPath(InitialInput) \in DOMAIN jsonFiles
        fromScript == WarcsPath(ScriptDirectory) \in DOMAIN jsonFiles
        copied == Append(OutputContextDirectory, BROWSER_CONTEXT_WARC_DIRECTORY)
    IN IF ~fromInput /\ ~fromScript
       THEN ~call.result.ok /\ ProxyEffects = <<>>
       ELSE /\ call.result.ok
            /\ Len(ProxyEffects) = 4
            /\ ProxyEffects[1].op = "copy"
            /\ ProxyEffects[1].source = IF fromInput THEN WarcsPath(InitialInput)
                                        ELSE WarcsPath(ScriptDirectory)
            /\ ProxyEffects[1].directory = copied
            /\ ProxyEffects[2].op = "reIndex"
            /\ ProxyEffects[2].directory = copied
            /\ ProxyEffects[3].op = "start"
            /\ ProxyEffects[3].directory = copied
            /\ ProxyEffects[3].record = (call.runOptions.replay = "rw")
            /\ ProxyEffects[4].op = "launch"

\* both directories hold a collection and it is replayed read-write
C30_Witness ==
  /\ Launched
  /\ call.runOptions.replay = "rw"
  /\ call.inputDirectory = InitialInput
  /\ WarcsPath(InitialInput) \in DOMAIN jsonFiles
  /\ WarcsPath(ScriptDirectory) \in DOMAIN jsonFiles
  /\ ProxyEffects[1].source = WarcsPath(InitialInput)
  /\ ProxyEffects[3].record

\* run() of docker.js returned or threw, or the driver process died
Terminal ==
  driver.pc \in {"threw", "returnedTrue", "returnedFalse", "complete", "maxRunsReached",
                 "crashed"}

\* the driver saw the exit of the process of run k
Ended(k) == k <= Len(runs) /\ runs[k].exitSeen

\* a chain of docker.js
CounterChain == strategy = "counter" /\ ChainConfiguration.ok /\ ChainConfiguration.chain

C31_NextRunOnlyAfterFinalized ==
  strategy = "counter" =>
    \A k \in RunIds :
      k > 1 =>
        /\ runs[k - 1].phase = "locked"
        /\ trees[runs[k].inputDirectory].locked
        /\ trees[runs[k].inputDirectory].id # NoHash

\* C32: the result docker.js takes for a run is true only if the script of
\* that run returned true and its own cleanup line was read; a line of a run
\* that is read after the exit event of the run, while a later run is under
\* way, leaves the shared flag chainable as it is
C32_ResultFromOwnLines ==
  /\ [](strategy = "counter" =>
          \A k \in RunIds :
            runs[k].result = "true" =>
              /\ runs[k].runChainable
              /\ \A i \in 1..Len(runs[k].pipe) :
                   runs[k].pipe[i].msg # "scripts.run.cleanup")
  /\ [][\A k \in RunIds :
          (/\ strategy = "counter"
           /\ k < Len(runs)
           /\ runs[k].exitSeen
           /\ Len(runs'[k].pipe) < Len(runs[k].pipe))
          => chainable' = chainable]_vars

\* a line of run 1 was read after its exit event while run 2 was running
\* (the write to the ended log stream of run 1 ended the driver)
C32_Witness ==
  /\ strategy = "counter"
  /\ Len(runs) = 2
  /\ runs[1].exitSeen
  /\ runs[1].pipe = <<>>
  /\ runs[2].process = "running"
  /\ runs[2].pipe = <<>>
  /\ runs[2].phase = "executing-script"
  /\ driver.pc = "crashed"

\* C33: the timer of a run is not armed once the exit event of the run was
\* handled; it fires at most once, only before that exit event, and when it
\* fires it ends the process of its own run and of no other run
C33_TimeoutOfOwnRunOnly ==
  /\ [](strategy = "counter" =>
          \A k \in RunIds : runs[k].exitSeen => runs[k].timer # "armed")
  /\ [][\A k \in RunIds :
          /\ runs[k].timer \in {"fired", "cleared"} => runs'[k].timer = runs[k].timer
          /\ (runs[k].timer = "armed" /\ runs'[k].timer = "fired") =>
               /\ ~runs[k].exitSeen
               /\ runs'[k].process = "ended"
               /\ \A j \in RunIds :
                    j # k => /\ runs'[j].process = runs[j].process
                             /\ runs'[j].exit = runs[j].exit]_vars

\* run 1 of a chain exited by itself and its timer was cleared; run 2 runs
\* with its own timer armed
C33_Witness ==
  /\ strategy = "counter"
  /\ Len(runs) = 2
  /\ runs[1].exit = "ok"
  /\ runs[1].exitSeen
  /\ runs[1].timer = "cleared"
  /\ runs[2].process = "running"
  /\ runs[2].timer = "armed"

\* C34: the step that closes a context of a run ends no subprocess of
\* another context of the run
C34_CloseEndsOwnSubprocessesOnly ==
  [][\A k \in RunIds : \A c \in DOMAIN runs[k].contexts :
       (runs[k].contexts[c] # "closed" /\ runs'[k].contexts[c] = "closed") =>
         \A d \in DOMAIN runs[k].contexts : \A p \in Subprocesses :
           (d # c /\ runs[k].processes[d][p] = "running")
             => runs'[k].processes[d][p] = "running"]_vars

\* C35: a chain configuration whose max is given and is no positive integer
\* is rejected: run() of docker.js throws and no run was started
C35_MaxMustBePositiveInteger ==
  LET max == Get(options.chain.config, "max")
  IN (/\ strategy = "counter"
      /\ driver.pc # "start"
      /\ options.chain.given
      /\ max.type # "undefined"
      /\ ~(max.type = "number" /\ max.isInteger /\ max.num >= 1))
     => driver.pc = "threw" /\ runs = <<>>

\* the setup of a context of run k failed
SetupFailed(k) == \E c \in DOMAIN runs[k].contexts : runs[k].contexts[c] = "failed"

\* C36: a run with a context whose setup failed never executes the script;
\* from the failure on, as long as it is the latest run, no step changes the
\* chain configuration file (but an edit from outside) or the tree of the
\* output directory of an earlier run; and under the persisted-state strategy
\* the file still names the index of the failed run as the next index
C36_SetupErrorFatalForRunOnly ==
  /\ [](\A k \in RunIds :
          SetupFailed(k) =>
            runs[k].phase = "preparing-sessions" /\ runs[k].scriptOutcome = "none")
  /\ [][\A k \in RunIds :
          (/\ k = Len(runs) /\ k = Len(runs')
           /\ \E c \in DOMAIN runs'[k].contexts : runs'[k].contexts[c] = "failed"
           /\ "edited" \notin faults')
          => /\ jsonFiles' = jsonFiles
             /\ \A j \in 1..(k - 1) :
                  runs[j].outputDirectory # runs[k].outputDirectory =>
                    trees'[runs[j].outputDirectory] = trees[runs[j].outputDirectory]]_vars
  /\ [](\A k \in RunIds :
          (/\ strategy = "persisted"
           /\ k = Len(runs)
           /\ InstantiateFailed(k)
           /\ faults \subseteq {"launch"})
          => runs[k].outputDirectory.base = ChainDirectoryName(FileIndex(jsonFiles)))

\* the second run of a chain failed in the setup of a context after the
\* first run was completed, under either strategy
C36_Witness ==
  /\ Len(runs) = 2
  /\ Completed(1)
  /\ InstantiateFailed(2)
  /\ SetupFailed(2)
  /\ strategy = "persisted" => FileIndex(jsonFiles) = 2

\* the runs whose output directory is d
RunsOn(d) == {k \in RunIds : runs[k].outputDirectory = d}

Proxies == {"warc", "replay"}

\* C39: when a wayback process exits by itself with a code other than 0, the
\* process of the run ends with the error in the same step and the run never
\* completes; when the close of its context kills a wayback process the run
\* goes on
C39_ProxyDeathFatalKillLogged ==
  /\ [][\A k \in RunIds : \A c \in DOMAIN runs[k].contexts : \A p \in Proxies :
          /\ (runs[k].processes[c][p] = "running" /\ runs'[k].processes[c][p] = "crashed")
               => runs'[k].process = "ended" /\ runs'[k].exit = "error"
          /\ (runs[k].processes[c][p] = "running" /\ runs'[k].processes[c][p] = "terminated")
               => /\ runs'[k].contexts[c] = "closed"
                  /\ runs'[k].process = "running"
                  /\ runs'[k].exit = runs[k].exit]_vars
  /\ [](\A k \in RunIds : \A c \in DOMAIN runs[k].contexts : \A p \in Proxies :
          runs[k].processes[c][p] = "crashed" =>
            /\ ~Completed(k)
            /\ runs[k].process = "ended"
            /\ runs[k].phase # "locked")

\* in the clean-up of a run the recording proxy of context a was killed by
\* the close of the context and the run went on, then the one of context b
\* exited with a code and the run ended with the error
C39_Witness ==
  /\ Len(runs) = 1
  /\ DOMAIN runs[1].contexts = {"a", "b"}
  /\ runs[1].contexts["a"] = "closed"
  /\ runs[1].processes["a"]["warc"] = "terminated"
  /\ runs[1].processes["b"]["warc"] = "crashed"
  /\ runs[1].phase = "tearing-down"
  /\ runs[1].process = "ended"
  /\ runs[1].exit = "error"

====
